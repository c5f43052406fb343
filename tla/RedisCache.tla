------------------------------ MODULE RedisCache ------------------------------
(***************************************************************************)
(* The Redis library: one cached key, read through by getOrSet, invalidated *)
(* by del or deletePattern after its source was written, and one counter   *)
(* of incrWithTtl.  Processes are the callers in any service; no service   *)
(* calls the library yet, so that writers write the source first and       *)
(* invalidate after is the usage its comments describe, not code.          *)
(***************************************************************************)
EXTENDS Integers, SequencesExt

CONSTANTS
  Processes,
  Ttl,          \* ttlSeconds of getOrSet, in ticks; 0 or less: no expiry
  Window,       \* ttlSeconds of incrWithTtl
  Prefix,       \* redis.keyPrefix, as a sequence
  Key,          \* the key and the pattern meant to match it, as sequences
  MaxWrites,    \* bounds on writes of the source, on calls of incrWithTtl in a
  MaxHits,      \* window, and on failing commands, fetches and processes
  MaxFaults,
  None

ASSUME CacheAssumption ==
  /\ Ttl \in Int /\ Window \in Nat \ {0}
  /\ MaxWrites \in Nat /\ MaxHits \in Nat /\ MaxFaults \in Nat
  /\ None \notin Int

VARIABLES
  source, writes,   \* the live value, or None; how often it was written
  entry,            \* the cached key: None, or its value and what is left of its ttl
  at, value,        \* where a process stands; what a getOrSet has fetched
  counter,          \* the rate limiter's key: None, or its count and its ttl
  age, answered,    \* history: the window's age, and the calls it answered
  skipped,          \* history: an invalidation was due to entry and did not happen
  outdated,         \* history: entry was not the source's value when it was stored
  faults

vars == <<source, writes, entry, at, value, counter, age, answered, skipped, outdated, faults>>

Cached == entry # None
Goto(p, s) == at' = [at EXCEPT ![p] = s]
Fault == faults < MaxFaults /\ faults' = faults + 1

Init == /\ source = 0 /\ writes = 0 /\ entry = None
        /\ at = [p \in Processes |-> "idle"]
        /\ value = [p \in Processes |-> None]
        /\ counter = None /\ age = 0 /\ answered = 0
        /\ skipped = FALSE /\ outdated = FALSE /\ faults = 0

others == <<counter, age, answered>>

-------------------------------------------------------------------------------
(* getOrSet: get; on a miss or a failed get, fetch; then set. *)

Get_Slides(p) ==   \* a hit renews the expiry
  /\ at[p] = "idle"
  /\ \/ ~Cached /\ Goto(p, "missed") /\ UNCHANGED entry
     \/ Cached /\ entry' = [entry EXCEPT !.ttl = Ttl] /\ UNCHANGED at
  /\ UNCHANGED <<source, writes, value, skipped, outdated, faults, others>>

Get(p) ==
  /\ at[p] = "idle"
  /\ \/ ~Cached /\ Goto(p, "missed") /\ UNCHANGED faults
     \/ Fault /\ Goto(p, "missed")
  /\ UNCHANGED <<source, writes, entry, value, skipped, outdated, others>>

\* The fetch closure reads the live source, or throws; absence is not cached.
Fetch(p) ==
  /\ at[p] = "missed"
  /\ \/ source # None /\ Goto(p, "fetched") /\ value' = [value EXCEPT ![p] = source] /\ UNCHANGED faults
     \/ source = None /\ Goto(p, "idle") /\ UNCHANGED <<value, faults>>
     \/ Fault /\ Goto(p, "idle") /\ UNCHANGED value
  /\ UNCHANGED <<source, writes, entry, skipped, outdated, others>>

\* set: with EX only for a positive ttl.  Each set replaces value and expiry.
Lifetime_Forever == None
Lifetime == IF Ttl > 0 THEN Ttl ELSE None

\* The set may fail, which is only logged.
Store(p) ==
  /\ at[p] = "fetched"
  /\ \/ /\ entry' = [value |-> value[p], ttl |-> Lifetime]
        /\ skipped' = FALSE /\ outdated' = (value[p] # source)
        /\ UNCHANGED faults
     \/ Fault /\ UNCHANGED <<entry, skipped, outdated>>
  /\ Goto(p, "idle") /\ value' = [value EXCEPT ![p] = None]
  /\ UNCHANGED <<source, writes, others>>

-------------------------------------------------------------------------------
(* Writers. *)

Write(p) ==
  /\ at[p] = "idle" /\ writes < MaxWrites
  /\ writes' = writes + 1
  /\ source' \in {writes + 1, None}
  /\ Goto(p, "written")
  /\ UNCHANGED <<entry, value, skipped, outdated, faults, others>>

Clear == entry' = None /\ skipped' = FALSE /\ outdated' = FALSE

Del_Missing(p) == at[p] = "written" /\ UNCHANGED <<entry, skipped, outdated>>
Del(p) == at[p] = "written" /\ Clear

Invalidate(p) ==
  /\ Del(p) /\ Goto(p, "idle")
  /\ UNCHANGED <<source, writes, value, faults, others>>

\* The process dies, or del fails, between the write and the invalidation.
Forgo(p) ==
  /\ at[p] = "written" /\ Fault
  /\ skipped' = Cached /\ Goto(p, "idle")
  /\ UNCHANGED <<source, writes, entry, value, outdated, others>>

\* deletePattern.  The client puts its prefix before the keys of del, but neither
\* before the pattern of scan nor off the names scan returns.
FullName(name) == Prefix \o name
Batch(pattern) == {name \in {FullName(Key)} : Cached /\ IsPrefix(pattern, name)}
Deletes(pattern) == FullName(Key) \in {FullName(name) : name \in Batch(pattern)}

DeletePattern(p, pattern) ==
  /\ at[p] = "written" /\ Goto(p, "idle")
  /\ IF Deletes(pattern)
       THEN Clear
       ELSE skipped' = Cached /\ UNCHANGED <<entry, outdated>>
  /\ UNCHANGED <<source, writes, value, faults, others>>

\* With the prefix spelt out, without it, and "*".
Patterns == {FullName(Key), Key, <<>>}

-------------------------------------------------------------------------------
(* incrWithTtl: MULTI of INCR and EXPIRE NX. *)

Expiry_Always(ttl) == Window
Expiry(ttl) == IF ttl = None THEN Window ELSE ttl

\* The answer can be lost; the count stays.
Hit ==
  /\ IF counter = None
       THEN counter' = [n |-> 1, ttl |-> Window] /\ age' = 0
       ELSE /\ counter.n < MaxHits
            /\ counter' = [n |-> counter.n + 1, ttl |-> Expiry(counter.ttl)]
            /\ UNCHANGED age
  /\ LET before == IF counter = None THEN 0 ELSE answered IN
       \/ answered' = before + 1 /\ UNCHANGED faults
       \/ answered' = before /\ Fault
  /\ UNCHANGED <<source, writes, entry, at, value, skipped, outdated>>

-------------------------------------------------------------------------------
\* A second passes: keys whose ttl runs out are gone.
Tick ==
  /\ \/ Cached /\ entry.ttl # None
     \/ counter # None
  /\ IF Cached /\ entry.ttl # None
       THEN IF entry.ttl = 1 THEN Clear
            ELSE entry' = [entry EXCEPT !.ttl = @ - 1] /\ UNCHANGED <<skipped, outdated>>
       ELSE UNCHANGED <<entry, skipped, outdated>>
  /\ IF counter = None
       THEN UNCHANGED <<counter, age, answered>>
       ELSE IF counter.ttl = 1
              THEN counter' = None /\ age' = 0 /\ answered' = 0
              ELSE counter' = [counter EXCEPT !.ttl = @ - 1] /\ age' = age + 1 /\ UNCHANGED answered
  /\ UNCHANGED <<source, writes, at, value, faults>>

Next == \/ \E p \in Processes : \/ Get(p) \/ Fetch(p) \/ Store(p)
                                \/ Write(p) \/ Invalidate(p) \/ Forgo(p)
                                \/ \E pattern \in Patterns : DeletePattern(p, pattern)
        \/ Hit \/ Tick

Spec == Init /\ [][Next]_vars

\* Time passes in Redis, and a getOrSet that has fetched goes on to its set.
FairSpec == Spec /\ WF_vars(Tick) /\ \A p \in Processes : WF_vars(Store(p))

-------------------------------------------------------------------------------
(* Properties. *)

Versions == 0 .. MaxWrites
Entry == [value : Versions, ttl : Nat \cup {None}]
Counter == [n : Nat, ttl : Nat]

ASSUME NoneAssumption == None \notin Entry \cup Counter

\* Types; a getOrSet goes on to its set only with a value.
TypeOK ==
  /\ source \in Versions \cup {None} /\ writes \in Versions
  /\ entry \in Entry \cup {None}
  /\ at \in [Processes -> {"idle", "missed", "fetched", "written"}]
  /\ value \in [Processes -> Versions \cup {None}]
  /\ \A p \in Processes : at[p] = "fetched" => value[p] # None
  /\ counter \in Counter \cup {None}
  /\ age \in Nat /\ answered \in Nat /\ faults \in 0 .. MaxFaults
  /\ skipped \in BOOLEAN /\ outdated \in BOOLEAN

\* The only ways to read a value the source no longer has: its writer is still to
\* invalidate it; the invalidation failed or went by pattern; or the getOrSet that
\* stored it fetched before a write and stored after (redis.service.ts getOrSet,
\* del, deletePattern).
StaleExplained ==
  Cached /\ entry.value # source =>
    \/ \E p \in Processes : at[p] = "written"
    \/ skipped
    \/ outdated

Stale == Cached /\ entry.value # source

\* Calls of getOrSet that a write outran: they are about to store what is stale.
Outrun == {p \in Processes : at[p] = "fetched" /\ value[p] # source}

\* While the source is not written, staleness ebbs away: no further getOrSet is
\* outrun, and a stale entry either was there, with as much time left or more, or was
\* stored by a getOrSet that was outrun, which is then done (redis.service.ts
\* getOrSet; :9-11 says its race is eliminated).
StalenessEbbs ==
  [][UNCHANGED writes =>
       /\ Outrun' \subseteq Outrun
       /\ Stale' => \/ /\ Stale /\ entry'.value = entry.value
                       /\ entry.ttl # None => entry'.ttl <= entry.ttl
                    \/ \E p \in Outrun \ Outrun' : entry'.value = value[p]]_vars

\* The rate limiter's window is fixed by its first call: later ones, whose answers
\* may be lost, do not extend it, and every answered call is counted, a lost one
\* perhaps too (redis.service.ts incrWithTtl: EXPIRE ... NX in one MULTI).
WindowFixed ==
  counter # None => /\ counter.ttl + age = Window
                    /\ answered <= counter.n /\ counter.n <= answered + faults

\* Once the source is written no more, the cache agrees with it for good, however
\* badly it was invalidated: the expiry sees to it (redis.service.ts set).
CacheConverges == <>[](Cached => entry.value = source)

\* What the comment at redis.service.ts:87 says of deletePattern.
PatternInvalidates ==
  [][\A p \in Processes : \A pattern \in Patterns : DeletePattern(p, pattern) => entry' = None]_vars

===============================================================================
