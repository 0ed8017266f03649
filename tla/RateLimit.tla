----------------------------- MODULE RateLimit -----------------------------
(***************************************************************************)
(* The token bucket in front of the helpdesk (connectors/ratelimit).       *)
(* Callers are served one at a time; a caller that finds no token sleeps   *)
(* with the lock, and looks again when it wakes.                           *)
(*                                                                         *)
(* Time is counted in ticks of 1/Rate of a second, tokens in parts of      *)
(* which Seconds make one token: a tick refills one part, whatever the     *)
(* rate, and a minute has Rate * Seconds ticks.  Arithmetic is exact where *)
(* the code rounds.                                                        *)
(***************************************************************************)
EXTENDS Integers

CONSTANTS
    Callers, Rate, Burst,   \* rate_per_min, burst
    Seconds,                \* of the minute the rate is given for: 60
    MaxTime,                \* bound: ticks
    Nobody

RateOK ==
    /\ Rate \in Nat \ {0} /\ Burst \in Nat \ {0} /\ Seconds \in Nat \ {0} /\ MaxTime \in Nat
    /\ Nobody \notin Callers

VARIABLES
    now,
    parts, stamp,     \* _tokens, _stamp
    sleeper, wake,    \* who holds the lock while asleep, and until when
    from, sent        \* a minute that begins at some time, and what was let through since

vars == <<now, parts, stamp, sleeper, wake, from, sent>>

Full == Burst * Seconds
Minute == Rate * Seconds

TypeOK ==
    /\ now \in Nat /\ stamp \in Nat /\ from \in Nat /\ wake \in Nat
    /\ parts \in 0..Full /\ sent \in Nat
    /\ sleeper \in Callers \cup {Nobody}

Init ==
    /\ now = 0 /\ stamp = 0 /\ parts = Full
    /\ sleeper = Nobody /\ wake = 0
    /\ from \in 0..MaxTime /\ sent = 0

-----------------------------------------------------------------------------
Capped(p) == IF p > Full THEN Full ELSE p

(* _refill *)
Refilled == Capped(parts + (now - stamp))

Serve(c) ==
    /\ stamp' = now
    /\ \/ /\ Refilled >= Seconds
          /\ parts' = Refilled - Seconds /\ sleeper' = Nobody
          /\ sent' = IF now >= from THEN sent + 1 ELSE sent
          /\ UNCHANGED wake
       \/ /\ Refilled < Seconds
          /\ parts' = Refilled /\ sleeper' = c /\ wake' = now + (Seconds - Refilled)
          /\ UNCHANGED sent
    /\ UNCHANGED <<now, from>>

Acquire(c) == sleeper = Nobody /\ Serve(c)

(* A sleep may end late, never early.                                      *)
Wakes(c) == sleeper = c /\ now >= wake /\ Serve(c)

(* A caller that is cancelled in its sleep leaves without a token.         *)
GivesUp(c) ==
    /\ sleeper = c /\ sleeper' = Nobody
    /\ UNCHANGED <<now, parts, stamp, wake, from, sent>>

Tick == now < MaxTime /\ now' = now + 1 /\ UNCHANGED <<parts, stamp, sleeper, wake, from, sent>>

Next == Tick \/ \E c \in Callers : Acquire(c) \/ Wakes(c) \/ GivesUp(c)

Spec == Init /\ [][Next]_vars

-----------------------------------------------------------------------------
(* In no minute are more calls let through than the rate and the burst     *)
(* together, whoever makes them and however they sleep.                    *)
WithinTheRate ==
    now <= from + Minute => sent <= Rate + Burst

(* The bucket and what was let through add up to a full bucket and the     *)
(* time since the window began.                                            *)
Bounded ==
    /\ stamp <= now
    /\ now < from => sent = 0
    /\ now >= from => Seconds * sent + Refilled <= Full + (now - from)
=============================================================================
