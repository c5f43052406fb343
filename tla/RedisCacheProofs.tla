---------------------------- MODULE RedisCacheProofs ----------------------------
(***************************************************************************)
(* Theorems about RedisCache, for any number of processes, any lifetimes,  *)
(* prefix and key, and any number of writes and faults.                    *)
(***************************************************************************)
EXTENDS RedisCache, TLAPS

\* A key that is there has time left, or no expiry.
Alive == /\ entry # None => entry.ttl # 0
         /\ counter # None => counter.ttl # 0

IInv == TypeOK /\ Alive /\ StaleExplained /\ WindowFixed

LEMMA InitInv == Init => IInv
<1> SUFFICES ASSUME Init PROVE IInv
  OBVIOUS
<1>1. TypeOK
  <2>1. 0 \in Versions /\ 0 \in 0 .. MaxFaults
    BY CacheAssumption DEF Versions
  <2>2. /\ at \in [Processes -> {"idle", "missed", "fetched", "written"}]
        /\ value \in [Processes -> Versions \cup {None}]
        /\ \A p \in Processes : at[p] # "fetched"
    BY DEF Init
  <2>3. skipped \in BOOLEAN /\ outdated \in BOOLEAN
    BY DEF Init
  <2> QED BY <2>1, <2>2, <2>3 DEF Init, TypeOK
<1>2. Alive /\ StaleExplained /\ WindowFixed
  BY DEF Init, Alive, StaleExplained, WindowFixed, Cached
<1> QED BY <1>1, <1>2 DEF IInv

-------------------------------------------------------------------------------
(* The two halves of the state: the cached key, and the rate limiter's counter. *)

CacheTyped ==
  /\ source \in Versions \cup {None} /\ writes \in Versions
  /\ entry \in Entry \cup {None}
  /\ at \in [Processes -> {"idle", "missed", "fetched", "written"}]
  /\ value \in [Processes -> Versions \cup {None}]
  /\ \A p \in Processes : at[p] = "fetched" => value[p] # None
  /\ skipped \in BOOLEAN /\ outdated \in BOOLEAN
  /\ entry # None => entry.ttl # 0

CounterTyped ==
  /\ counter \in Counter \cup {None}
  /\ age \in Nat /\ answered \in Nat
  /\ counter # None => counter.ttl # 0

LEMMA Halves == IInv => CacheTyped /\ CounterTyped /\ faults \in 0 .. MaxFaults /\ StaleExplained /\ WindowFixed
<1> QED BY DEF IInv, TypeOK, Alive, CacheTyped, CounterTyped

\* Steps of getOrSet and of writers leave the counter alone.
LEMMA CounterKept ==
  ASSUME CounterTyped, WindowFixed, faults \in 0 .. MaxFaults, UNCHANGED others,
         UNCHANGED faults \/ Fault
  PROVE  CounterTyped' /\ WindowFixed' /\ faults' \in 0 .. MaxFaults
<1>1. faults \in Nat /\ faults' \in 0 .. MaxFaults /\ faults' >= faults /\ faults' \in Nat
  BY CacheAssumption DEF Fault
<1>2. CounterTyped'
  BY DEF CounterTyped, others
<1>3. counter # None => counter.n \in Nat /\ answered \in Nat
  BY DEF CounterTyped, Counter
<1> QED BY <1>1, <1>2, <1>3 DEF WindowFixed, others

\* Steps on the counter leave the cached key alone.
LEMMA CacheKept ==
  ASSUME CacheTyped, StaleExplained,
         UNCHANGED <<source, writes, entry, at, value, skipped, outdated>>
  PROVE  CacheTyped' /\ StaleExplained'
<1> QED BY DEF CacheTyped, StaleExplained, Cached

-------------------------------------------------------------------------------
(* getOrSet. *)

LEMMA GetInv ==
  ASSUME CacheTyped, StaleExplained, NEW p \in Processes, Get(p)
  PROVE  CacheTyped' /\ StaleExplained'
<1>1. at' = [at EXCEPT ![p] = "missed"] /\ at[p] = "idle"
      /\ UNCHANGED <<source, writes, entry, value, skipped, outdated>>
  BY DEF Get, Goto
<1>2. \A q \in Processes \ {p} : at'[q] = at[q]
  BY <1>1 DEF CacheTyped
<1>3. CacheTyped'
  BY <1>1, <1>2 DEF CacheTyped
<1> QED BY <1>1, <1>2, <1>3 DEF StaleExplained, Cached

LEMMA FetchInv ==
  ASSUME CacheTyped, StaleExplained, NEW p \in Processes, Fetch(p)
  PROVE  CacheTyped' /\ StaleExplained'
<1>1. /\ at[p] = "missed" /\ UNCHANGED <<source, writes, entry, skipped, outdated>>
      /\ \/ source # None /\ at' = [at EXCEPT ![p] = "fetched"] /\ value' = [value EXCEPT ![p] = source]
         \/ at' = [at EXCEPT ![p] = "idle"] /\ UNCHANGED value
  BY DEF Fetch, Goto
<1>2. /\ \A q \in Processes \ {p} : at'[q] = at[q] /\ value'[q] = value[q]
      /\ at'[p] = "fetched" => value'[p] # None
  BY <1>1 DEF CacheTyped
<1>3. CacheTyped'
  <2>1. value' \in [Processes -> Versions \cup {None}]
    BY <1>1 DEF CacheTyped
  <2>2. at' \in [Processes -> {"idle", "missed", "fetched", "written"}]
    BY <1>1 DEF CacheTyped
  <2> QED BY <1>1, <1>2, <2>1, <2>2 DEF CacheTyped
<1> QED BY <1>1, <1>2, <1>3 DEF StaleExplained, Cached

LEMMA StoreInv ==
  ASSUME CacheTyped, StaleExplained, NEW p \in Processes, Store(p)
  PROVE  CacheTyped' /\ StaleExplained'
<1>1. /\ at[p] = "fetched" /\ UNCHANGED <<source, writes>>
      /\ at' = [at EXCEPT ![p] = "idle"] /\ value' = [value EXCEPT ![p] = None]
      /\ \/ entry' = [value |-> value[p], ttl |-> Lifetime] /\ skipped' = FALSE /\ outdated' = (value[p] # source)
         \/ UNCHANGED <<entry, skipped, outdated>>
  BY DEF Store, Goto
<1>2. /\ \A q \in Processes \ {p} : at'[q] = at[q] /\ value'[q] = value[q]
      /\ at'[p] = "idle" /\ value[p] \in Versions
  BY <1>1 DEF CacheTyped
<1>3. Lifetime \in (Nat \ {0}) \cup {None}
  BY CacheAssumption DEF Lifetime
<1>4. CacheTyped'
  <2>1. value' \in [Processes -> Versions \cup {None}]
    BY <1>1 DEF CacheTyped
  <2>2. at' \in [Processes -> {"idle", "missed", "fetched", "written"}]
    BY <1>1 DEF CacheTyped
  <2>3. skipped' \in BOOLEAN /\ outdated' \in BOOLEAN
    BY <1>1 DEF CacheTyped
  <2>4. entry' \in Entry \cup {None} /\ (entry' # None => entry'.ttl # 0)
    BY <1>1, <1>2, <1>3, CacheAssumption DEF CacheTyped, Entry
  <2> QED BY <1>1, <1>2, <2>1, <2>2, <2>3, <2>4 DEF CacheTyped
<1>5. StaleExplained'
  <2>1. CASE UNCHANGED <<entry, skipped, outdated>>
    BY <1>1, <1>2, <2>1 DEF StaleExplained, Cached
  <2>2. CASE entry' = [value |-> value[p], ttl |-> Lifetime] /\ outdated' = (value[p] # source)
    <3>1. entry'.value = value[p] /\ source' = source
      BY <1>1, <2>2
    <3>2. value[p] # source => outdated'
      BY <2>2
    <3> QED BY <3>1, <3>2 DEF StaleExplained
  <2> QED BY <1>1, <2>1, <2>2
<1> QED BY <1>4, <1>5

-------------------------------------------------------------------------------
(* Writers. *)

LEMMA WriteInv ==
  ASSUME CacheTyped, StaleExplained, NEW p \in Processes, Write(p)
  PROVE  CacheTyped' /\ StaleExplained'
<1>1. /\ at' = [at EXCEPT ![p] = "written"] /\ writes < MaxWrites
      /\ writes' = writes + 1 /\ source' \in {writes + 1, None}
      /\ UNCHANGED <<entry, value, skipped, outdated>>
  BY DEF Write, Goto
<1>2. at'[p] = "written" /\ \A q \in Processes \ {p} : at'[q] = at[q]
  BY <1>1 DEF CacheTyped
<1>3. writes + 1 \in Versions
  BY <1>1, CacheAssumption DEF CacheTyped, Versions
<1>4. CacheTyped'
  <2>1. at' \in [Processes -> {"idle", "missed", "fetched", "written"}]
    BY <1>1 DEF CacheTyped
  <2> QED BY <1>1, <1>2, <1>3, <2>1 DEF CacheTyped
<1> QED BY <1>2, <1>4 DEF StaleExplained

\* A writer finishes: the key is gone, or its invalidation is remembered as skipped.
LEMMA FinishInv ==
  ASSUME CacheTyped, StaleExplained, NEW p \in Processes, Goto(p, "idle"),
         Clear \/ (skipped' = Cached /\ UNCHANGED <<entry, outdated>>),
         UNCHANGED <<source, writes, value>>
  PROVE  CacheTyped' /\ StaleExplained'
<1>1. at'[p] = "idle" /\ \A q \in Processes \ {p} : at'[q] = at[q]
  BY DEF Goto, CacheTyped
<1>2. at' \in [Processes -> {"idle", "missed", "fetched", "written"}]
  BY DEF Goto, CacheTyped
<1>3. CASE Clear
  BY <1>1, <1>2, <1>3 DEF Clear, CacheTyped, StaleExplained, Cached
<1>4. CASE skipped' = Cached /\ UNCHANGED <<entry, outdated>>
  BY <1>1, <1>2, <1>4 DEF CacheTyped, StaleExplained, Cached
<1> QED BY <1>3, <1>4

LEMMA ProcessInv ==
  ASSUME IInv, NEW p \in Processes,
         \/ Get(p) \/ Fetch(p) \/ Store(p)
         \/ Write(p) \/ Invalidate(p) \/ Forgo(p)
         \/ \E pattern \in Patterns : DeletePattern(p, pattern)
  PROVE  IInv'
<1>1. CacheTyped /\ CounterTyped /\ faults \in 0 .. MaxFaults /\ StaleExplained /\ WindowFixed
  BY Halves
<1>2. CacheTyped' /\ StaleExplained'
  <2>1. CASE Invalidate(p)
    BY <1>1, <2>1, FinishInv DEF Invalidate, Del
  <2>2. CASE Forgo(p)
    BY <1>1, <2>2, FinishInv DEF Forgo
  <2>3. CASE \E pattern \in Patterns : DeletePattern(p, pattern)
    BY <1>1, <2>3, FinishInv DEF DeletePattern
  <2> QED BY <1>1, <2>1, <2>2, <2>3, GetInv, FetchInv, StoreInv, WriteInv
<1>3. UNCHANGED others
  BY DEF Get, Fetch, Store, Write, Invalidate, Forgo, DeletePattern
<1>4. UNCHANGED faults \/ Fault
  BY DEF Get, Fetch, Store, Write, Invalidate, Forgo, DeletePattern
<1>5. CounterTyped' /\ WindowFixed' /\ faults' \in 0 .. MaxFaults
  BY <1>1, <1>3, <1>4, CounterKept
<1> QED BY <1>2, <1>5 DEF IInv, TypeOK, Alive, CacheTyped, CounterTyped

-------------------------------------------------------------------------------
(* The counter, and time. *)

LEMMA HitInv == ASSUME IInv, Hit PROVE IInv'
<1>1. CacheTyped /\ CounterTyped /\ faults \in 0 .. MaxFaults /\ StaleExplained /\ WindowFixed
  BY Halves
<1>2. CacheTyped' /\ StaleExplained'
  BY <1>1, CacheKept DEF Hit
<1>3. /\ faults \in Nat /\ faults' \in 0 .. MaxFaults
      /\ \/ UNCHANGED faults /\ answered' = (IF counter = None THEN 0 ELSE answered) + 1
         \/ faults' = faults + 1 /\ answered' = IF counter = None THEN 0 ELSE answered
  BY <1>1, CacheAssumption DEF Hit, Fault
<1>4. CASE counter = None
  <2>1. counter' = [n |-> 1, ttl |-> Window] /\ age' = 0
    BY <1>4 DEF Hit
  <2>2. counter' \in Counter /\ counter'.n = 1 /\ counter'.ttl = Window
    BY <2>1, CacheAssumption DEF Counter
  <2>3. CounterTyped' /\ WindowFixed'
    BY <1>3, <1>4, <2>1, <2>2, CacheAssumption DEF CounterTyped, WindowFixed
  <2> QED BY <1>2, <1>3, <2>3 DEF IInv, TypeOK, Alive, CacheTyped, CounterTyped
<1>5. CASE counter # None
  <2>1. counter \in Counter /\ counter.n \in Nat /\ counter.ttl \in Nat /\ counter.ttl # None
    BY <1>1, <1>5, CacheAssumption DEF CounterTyped, Counter
  <2>2. counter' = [n |-> counter.n + 1, ttl |-> counter.ttl] /\ age' = age
    BY <1>5, <2>1 DEF Hit, Expiry
  <2>3. counter' \in Counter /\ counter'.n = counter.n + 1 /\ counter'.ttl = counter.ttl
    BY <2>1, <2>2 DEF Counter
  <2>4. CounterTyped'
    BY <1>1, <1>3, <1>5, <2>2, <2>3 DEF CounterTyped
  <2>5. answered \in Nat /\ counter.ttl + age = Window /\ answered <= counter.n /\ counter.n <= answered + faults
    BY <1>1, <1>5 DEF CounterTyped, WindowFixed
  <2>6. answered' <= counter.n + 1 /\ counter.n + 1 <= answered' + faults'
    BY <1>3, <1>5, <2>1, <2>5
  <2>7. WindowFixed'
    BY <2>2, <2>3, <2>5, <2>6 DEF WindowFixed
  <2> QED BY <1>2, <1>3, <2>4, <2>7 DEF IInv, TypeOK, Alive, CacheTyped, CounterTyped
<1> QED BY <1>4, <1>5

LEMMA TickInv == ASSUME IInv, Tick PROVE IInv'
<1>1. CacheTyped /\ CounterTyped /\ faults \in 0 .. MaxFaults /\ StaleExplained /\ WindowFixed
  BY Halves
<1>2. UNCHANGED <<source, writes, at, value, faults>>
  BY DEF Tick
<1>3. CacheTyped' /\ StaleExplained'
  <2>1. CASE Cached /\ entry.ttl # None /\ entry.ttl = 1
    BY <1>1, <1>2, <2>1 DEF Tick, Clear, CacheTyped, StaleExplained, Cached
  <2>2. CASE Cached /\ entry.ttl # None /\ entry.ttl # 1
    <3>1. entry' = [entry EXCEPT !.ttl = @ - 1] /\ UNCHANGED <<skipped, outdated>>
      BY <2>2 DEF Tick
    <3>2. entry \in Entry /\ entry.ttl \in Nat \ {0, 1}
      BY <1>1, <2>2 DEF CacheTyped, Cached, Entry
    <3>3. entry' \in Entry /\ entry'.value = entry.value /\ entry'.ttl # 0
      BY <3>1, <3>2 DEF Entry
    <3> QED BY <1>1, <1>2, <2>2, <3>1, <3>3 DEF CacheTyped, StaleExplained, Cached
  <2>3. CASE ~ (Cached /\ entry.ttl # None)
    <3>1. UNCHANGED <<entry, skipped, outdated>>
      BY <2>3 DEF Tick
    <3> QED BY <1>1, <1>2, <3>1, CacheKept
  <2> QED BY <2>1, <2>2, <2>3
<1>4. CounterTyped' /\ WindowFixed'
  <2>1. CASE counter = None
    BY <1>1, <1>2, <2>1 DEF Tick, CounterTyped, WindowFixed
  <2>2. CASE counter # None /\ counter.ttl = 1
    BY <2>2 DEF Tick, CounterTyped, WindowFixed
  <2>3. CASE counter # None /\ counter.ttl # 1
    <3>1. counter' = [counter EXCEPT !.ttl = @ - 1] /\ age' = age + 1 /\ UNCHANGED answered
      BY <2>3 DEF Tick
    <3>2. counter \in Counter /\ counter.ttl \in Nat \ {0, 1}
      BY <1>1, <2>3 DEF CounterTyped, Counter
    <3>3. counter' \in Counter /\ counter'.n = counter.n /\ counter'.ttl = counter.ttl - 1
      BY <3>1, <3>2 DEF Counter
    <3>4. CounterTyped'
      BY <1>1, <3>1, <3>2, <3>3 DEF CounterTyped
    <3>5. counter'.ttl + age' = Window
      BY <1>1, <2>3, <3>1, <3>2, <3>3 DEF CounterTyped, WindowFixed
    <3> QED BY <1>1, <1>2, <2>3, <3>1, <3>3, <3>4, <3>5 DEF WindowFixed
  <2> QED BY <2>1, <2>2, <2>3
<1> QED BY <1>1, <1>2, <1>3, <1>4 DEF IInv, TypeOK, Alive, CacheTyped, CounterTyped

LEMMA NextInv == IInv /\ [Next]_vars => IInv'
<1> SUFFICES ASSUME IInv, [Next]_vars PROVE IInv'
  OBVIOUS
<1>1. CASE UNCHANGED vars
  BY <1>1 DEF vars, IInv, TypeOK, Alive, StaleExplained, WindowFixed, Cached
<1>2. CASE Next
  BY <1>2, ProcessInv, HitInv, TickInv DEF Next
<1> QED BY <1>1, <1>2

LEMMA Inductive == Spec => []IInv
<1> QED BY InitInv, NextInv, PTL DEF Spec

\* Keys, counters and processes keep their types: a getOrSet never stores an absent
\* value (redis.service.ts getOrSet).
THEOREM TypeCorrect == Spec => []TypeOK
<1>1. IInv => TypeOK
  BY DEF IInv
<1> QED BY <1>1, Inductive, PTL

\* A cached value its source no longer has is explained: a writer between its write
\* and its del, a del that did not happen, or a set after a write that its fetch
\* came before (redis.service.ts getOrSet, del, deletePattern).
THEOREM StalenessIsExplained == Spec => []StaleExplained
<1>1. IInv => StaleExplained
  BY DEF IInv
<1> QED BY <1>1, Inductive, PTL

\* The rate limiter's window ends when its first call said, and its count is that
\* of the answered calls, plus at most the lost ones (redis.service.ts incrWithTtl).
THEOREM WindowsAreFixed == Spec => []WindowFixed
<1>1. IInv => WindowFixed
  BY DEF IInv
<1> QED BY <1>1, Inductive, PTL

-------------------------------------------------------------------------------
(* How long staleness can last. *)

Ebbs ==
  /\ Outrun' \subseteq Outrun
  /\ Stale' => \/ /\ Stale /\ entry'.value = entry.value
                  /\ entry.ttl # None => entry'.ttl <= entry.ttl
               \/ \E p \in Outrun \ Outrun' : entry'.value = value[p]

\* A step that neither stores nor writes, and after which no process holds a value it
\* did not hold before.
LEMMA NoStore ==
  ASSUME IInv, UNCHANGED source,
         \A p \in Processes : at'[p] = "fetched" /\ value'[p] # source => p \in Outrun,
         entry' = entry \/ entry' = None
  PROVE  Ebbs
<1>1. Outrun' \subseteq Outrun
  BY DEF Outrun
<1>2. Stale' => Stale /\ entry' = entry
  BY DEF Stale, Cached
<1>3. Cached /\ entry.ttl # None => entry.ttl \in Nat
  BY DEF IInv, TypeOK, Cached, Entry
<1>4. Stale => Cached
  BY DEF Stale
<1> QED BY <1>1, <1>2, <1>3, <1>4 DEF Ebbs

LEMMA ProcessEbbs ==
  ASSUME IInv, NEW p \in Processes, UNCHANGED writes,
         \/ Get(p) \/ Fetch(p) \/ Store(p)
         \/ Write(p) \/ Invalidate(p) \/ Forgo(p)
         \/ \E pattern \in Patterns : DeletePattern(p, pattern)
  PROVE  Ebbs
<1>1. /\ at \in [Processes -> {"idle", "missed", "fetched", "written"}]
      /\ value \in [Processes -> Versions \cup {None}] /\ writes \in Nat
  BY CacheAssumption DEF IInv, TypeOK, Versions
<1>2. CASE Get(p) \/ Invalidate(p) \/ Forgo(p) \/ \E pattern \in Patterns : DeletePattern(p, pattern)
  <2>1. /\ UNCHANGED <<source, value>> /\ (entry' = entry \/ entry' = None)
        /\ \E s \in {"missed", "idle"} : at' = [at EXCEPT ![p] = s]
    BY <1>2 DEF Get, Invalidate, Del, Clear, Forgo, DeletePattern, Goto
  <2>2. \A q \in Processes : at'[q] = "fetched" /\ value'[q] # source => q \in Outrun
    BY <1>1, <2>1 DEF Outrun
  <2> QED BY <2>1, <2>2, NoStore
<1>3. CASE Fetch(p)
  <2>1. /\ UNCHANGED <<source, entry>>
        /\ \/ at' = [at EXCEPT ![p] = "fetched"] /\ value' = [value EXCEPT ![p] = source]
           \/ at' = [at EXCEPT ![p] = "idle"] /\ UNCHANGED value
    BY <1>3 DEF Fetch, Goto
  <2>2. \A q \in Processes : at'[q] = "fetched" /\ value'[q] # source => q \in Outrun
    BY <1>1, <2>1 DEF Outrun
  <2> QED BY <2>1, <2>2, NoStore
<1>4. CASE Store(p)
  <2>1. /\ at[p] = "fetched" /\ UNCHANGED source
        /\ at' = [at EXCEPT ![p] = "idle"] /\ value' = [value EXCEPT ![p] = None]
        /\ \/ entry' = [value |-> value[p], ttl |-> Lifetime]
           \/ UNCHANGED entry
    BY <1>4 DEF Store, Goto
  <2>2. \A q \in Processes : at'[q] = "fetched" /\ value'[q] # source => q \in Outrun
    BY <1>1, <2>1 DEF Outrun
  <2>3. CASE UNCHANGED entry
    BY <2>1, <2>2, <2>3, NoStore
  <2>4. CASE entry' = [value |-> value[p], ttl |-> Lifetime]
    <3>1. entry'.value = value[p]
      BY <2>4
    <3>2. Stale' => p \in Outrun
      BY <2>1, <3>1 DEF Stale, Outrun
    <3>3. p \notin Outrun'
      BY <1>1, <2>1 DEF Outrun
    <3>4. Outrun' \subseteq Outrun
      BY <2>1, <2>2 DEF Outrun
    <3> QED BY <3>1, <3>2, <3>3, <3>4 DEF Ebbs
  <2> QED BY <2>1, <2>3, <2>4
<1>5. ~Write(p)
  BY <1>1 DEF Write
<1> QED BY <1>2, <1>3, <1>4, <1>5

LEMMA TickEbbs == ASSUME IInv, Tick PROVE Ebbs
<1>1. UNCHANGED <<source, at, value>>
  BY DEF Tick
<1>2. \A q \in Processes : at'[q] = "fetched" /\ value'[q] # source => q \in Outrun
  BY <1>1 DEF Outrun
<1>3. CASE entry' = entry \/ entry' = None
  BY <1>1, <1>2, <1>3, NoStore
<1>4. CASE Cached /\ entry.ttl # None /\ entry' = [entry EXCEPT !.ttl = @ - 1]
  <2>1. entry \in Entry /\ entry.ttl \in Nat
    BY <1>4 DEF IInv, TypeOK, Cached, Entry
  <2>2. entry'.value = entry.value /\ entry'.ttl = entry.ttl - 1
    BY <1>4, <2>1 DEF Entry
  <2>3. entry'.ttl <= entry.ttl
    BY <2>1, <2>2
  <2>4. Stale' => Stale
    BY <1>1, <1>4, <2>2 DEF Stale
  <2>5. Outrun' \subseteq Outrun
    BY <1>1 DEF Outrun
  <2> QED BY <2>2, <2>3, <2>4, <2>5 DEF Ebbs
<1>5. \/ entry' = entry \/ entry' = None
      \/ Cached /\ entry.ttl # None /\ entry' = [entry EXCEPT !.ttl = @ - 1]
  BY DEF Tick, Clear
<1> QED BY <1>3, <1>4, <1>5

\* Once its source is written no more, a stale value has a limited life: no getOrSet is
\* outrun any more, and only the sets of those that were bring back, each once, what
\* the expiry takes away. The reason why the cache converges (redis.service.ts getOrSet).
THEOREM StalenessAlwaysEbbs == Spec => StalenessEbbs
<1>1. IInv /\ [Next]_vars => [UNCHANGED writes => Ebbs]_vars
  <2> SUFFICES ASSUME IInv, Next, UNCHANGED writes PROVE Ebbs
    OBVIOUS
  <2>1. CASE Hit
    <3>1. UNCHANGED <<source, entry, at, value>>
      BY <2>1 DEF Hit
    <3> QED BY <3>1, NoStore DEF Outrun
  <2> QED BY <2>1, ProcessEbbs, TickEbbs DEF Next
<1>2. [UNCHANGED writes => Ebbs]_vars
      => [UNCHANGED writes =>
            /\ Outrun' \subseteq Outrun
            /\ Stale' => \/ /\ Stale /\ entry'.value = entry.value
                            /\ entry.ttl # None => entry'.ttl <= entry.ttl
                         \/ \E p \in Outrun \ Outrun' : entry'.value = value[p]]_vars
  BY DEF Ebbs
<1> QED BY <1>1, <1>2, Inductive, PTL DEF Spec, StalenessEbbs

EntriesExpire == Cached => entry.ttl \in 1 .. Ttl

\* With an expiry, no step of getOrSet, of a writer or of the clock leaves an entry
\* without one, or with more time left than the time to live (redis.service.ts set).
THEOREM EntriesAlwaysExpire ==
  ASSUME Ttl > 0
  PROVE  Spec => []EntriesExpire
<1>1. Init => EntriesExpire
  BY DEF Init, EntriesExpire, Cached
<1>2. IInv /\ EntriesExpire /\ [Next]_vars => EntriesExpire'
  <2> SUFFICES ASSUME IInv, EntriesExpire, [Next]_vars PROVE EntriesExpire'
    OBVIOUS
  <2>1. CASE entry' = entry \/ entry' = None
    BY <2>1 DEF EntriesExpire, Cached
  <2>2. CASE \E p \in Processes : entry' = [value |-> value[p], ttl |-> Lifetime]
    <3>1. entry'.ttl = Ttl
      BY <2>2, CacheAssumption DEF Lifetime
    <3> QED BY <3>1, CacheAssumption DEF EntriesExpire
  <2>3. CASE Cached /\ entry.ttl # 1 /\ entry' = [entry EXCEPT !.ttl = @ - 1]
    <3>1. entry \in Entry /\ entry.ttl \in 2 .. Ttl
      BY <2>3, CacheAssumption DEF EntriesExpire, IInv, TypeOK, Cached
    <3>2. entry'.ttl = entry.ttl - 1
      BY <2>3, <3>1 DEF Entry
    <3> QED BY <3>1, <3>2, CacheAssumption DEF EntriesExpire
  <2>4. \/ entry' = entry \/ entry' = None
        \/ \E p \in Processes : entry' = [value |-> value[p], ttl |-> Lifetime]
        \/ Cached /\ entry.ttl # 1 /\ entry' = [entry EXCEPT !.ttl = @ - 1]
    BY DEF Next, vars, Get, Fetch, Store, Write, Invalidate, Del, Clear, Forgo, DeletePattern, Hit, Tick
  <2> QED BY <2>1, <2>2, <2>3, <2>4
<1> QED BY <1>1, <1>2, Inductive, PTL DEF Spec

-------------------------------------------------------------------------------
(* deletePattern. *)

\* deletePattern is never the one to remove the key.
PatternsDeleteNothing ==
  [][\A p \in Processes : \A pattern \in Patterns : DeletePattern(p, pattern) => UNCHANGED entry]_vars

\* Under a key prefix deletePattern deletes nothing, whatever the key and however the
\* pattern is spelt: scan returns full names, and del puts the prefix before them
\* once more (redis.service.ts deletePattern, redis.module.ts keyPrefix).
THEOREM PrefixDefeatsPatterns ==
  ASSUME NEW Chars, Prefix \in Seq(Chars), Key \in Seq(Chars), Prefix # <<>>
  PROVE  Spec => PatternsDeleteNothing
<1>1. FullName(FullName(Key)) # FullName(Key)
  <2>1. Prefix \o Key \in Seq(Chars) /\ Len(Prefix \o Key) = Len(Prefix) + Len(Key)
    OBVIOUS
  <2>2. Len(Prefix \o (Prefix \o Key)) = Len(Prefix) + (Len(Prefix) + Len(Key))
    BY <2>1
  <2>3. Len(Prefix) \in Nat \ {0} /\ Len(Key) \in Nat
    OBVIOUS
  <2> QED BY <2>1, <2>2, <2>3 DEF FullName
<1>2. \A pattern : ~Deletes(pattern)
  BY <1>1 DEF Deletes, Batch
<1>3. [Next]_vars => [\A p \in Processes : \A pattern \in Patterns :
                        DeletePattern(p, pattern) => UNCHANGED entry]_vars
  BY <1>2 DEF DeletePattern
<1> QED BY <1>3, PTL DEF Spec, PatternsDeleteNothing

\* The prefix is the only reason: without one, deletePattern leaves no entry that the
\* pattern matches, as its comment says.
THEOREM UnprefixedPatternsInvalidate ==
  ASSUME NEW Chars, Key \in Seq(Chars), Prefix = <<>>
  PROVE  Spec => PatternInvalidates
<1>1. FullName(Key) = Key
  BY DEF FullName
<1>2. \A pattern \in Patterns : IsPrefix(pattern, Key)
  <2>1. IsPrefix(Key, Key)
    BY DEF IsPrefix
  <2>2. IsPrefix(<<>>, Key)
    BY DEF IsPrefix
  <2> QED BY <1>1, <2>1, <2>2 DEF Patterns
<1>3. \A pattern \in Patterns : Cached => Deletes(pattern)
  BY <1>1, <1>2 DEF Deletes, Batch
<1>4. [Next]_vars => [\A p \in Processes : \A pattern \in Patterns :
                        DeletePattern(p, pattern) => entry' = None]_vars
  BY <1>3 DEF DeletePattern, Clear, Cached
<1> QED BY <1>4, PTL DEF Spec, PatternInvalidates

===============================================================================
