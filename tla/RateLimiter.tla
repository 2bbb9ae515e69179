---------------------------- MODULE RateLimiter ----------------------------
(***************************************************************************)
(* The limiter of ratelimit.go for one key: the times of the calls it      *)
(* admitted, oldest first as they were appended.  A caller reads the clock *)
(* first and takes the lock later.                                         *)
(***************************************************************************)
EXTENDS Integers, Sequences, FiniteSets

CONSTANTS
  Call,      \* the callers
  Untimed,   \* a caller that has not read the clock
  Quota,     \* the calls a window admits
  Window,    \* its length
  Skew,      \* the longest time between reading the clock and taking the lock
  MaxClock   \* bound: the last tick

ASSUME LimiterAssumption ==
  /\ Quota \in Nat \ {0} /\ Window \in Nat /\ Skew \in 0..Window /\ MaxClock \in Nat
  /\ Untimed \notin Nat

VARIABLES clock, now, entries, admitted

limiterVars == <<clock, now, entries, admitted>>

LimiterInit ==
  /\ clock = 0 /\ now = [c \in Call |-> Untimed]
  /\ entries = <<>>
  /\ admitted = <<>>   \* history: the times of all admitted calls

\* What is left of the entries once those before the cutoff are gone from the
\* front.
\* Mutant: those at the cutoff are dropped too.
SinceAfter(cutoff) ==
  LET start == Cardinality({i \in DOMAIN entries : \A j \in 1..i : entries[j] <= cutoff})
  IN SubSeq(entries, start + 1, Len(entries))
Since(cutoff) ==
  LET start == Cardinality({i \in DOMAIN entries : \A j \in 1..i : entries[j] < cutoff})
  IN SubSeq(entries, start + 1, Len(entries))

ReadClock(c) ==
  /\ now[c] = Untimed
  /\ now' = [now EXCEPT ![c] = clock]
  /\ UNCHANGED <<clock, entries, admitted>>

Allow(c) ==
  LET values == Since(now[c] - Window)
  IN /\ now[c] # Untimed
     /\ IF Len(values) >= Quota THEN entries' = values /\ admitted' = admitted
        ELSE entries' = Append(values, now[c]) /\ admitted' = Append(admitted, now[c])
     /\ now' = [now EXCEPT ![c] = Untimed]
     /\ UNCHANGED clock

Tick ==
  /\ clock < MaxClock
  /\ \A c \in Call : now[c] # Untimed => clock - now[c] < Skew
  /\ clock' = clock + 1
  /\ UNCHANGED <<now, entries, admitted>>

LimiterNext == Tick \/ \E c \in Call : ReadClock(c) \/ Allow(c)

\* No window admits more calls than the quota, up to the time a caller may
\* take between reading the clock and the lock: the entries are not sorted,
\* and one that is dropped for a later caller may still count for an earlier
\* one that comes to the lock after it.
RateBound == \A t \in 0..MaxClock :
  Cardinality({i \in DOMAIN admitted : admitted[i] \in t..(t + Window - Skew)}) <= Quota
=============================================================================
