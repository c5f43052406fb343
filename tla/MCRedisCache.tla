----------------------------- MODULE MCRedisCache -----------------------------
\* Two processes, two writes, an expiry of two ticks and a window of three.
EXTENDS RedisCache

MCPrefix == <<"app:">>
MCKey == <<"user:", "1">>

===============================================================================
