---------------------------- MODULE OtpRateLimiter ----------------------------
(***************************************************************************)
(* otp_rate_limit of one email and flow: sliding_window_limiter on the     *)
(* cooldown, hour and day keys in turn.  Each limiter reads the clock and  *)
(* then awaits four Redis commands one by one (zremrangebyscore, zcount,   *)
(* zadd, expire), so calls interleave and time passes between them: a call *)
(* may trim, count and add by a clock that is old, and the key may be gone *)
(* by the time it is given a new time to live.  Times, windows and limits  *)
(* are scaled down; only their order matters.  A member of a sorted set is *)
(* named by the call that added it.                                        *)
(***************************************************************************)
EXTENDS Integers, FiniteSets, Sequences

CONSTANTS Call,             \* calls of otp_rate_limit
          Windows,          \* the keys in the order they are asked
          Limit, Length,    \* per key: OTP_*_LIMIT, OTP_*_WINDOW_SECONDS
          Concurrency,      \* calls for the same email that may overlap
          MayCrash,         \* whether a process may die within a call
          MaxTime,          \* a bound on the clock
          NoCall

Window == {Windows[i] : i \in DOMAIN Windows}

Finished == {"allowed", "denied", "crashed"}
Pc == {"clock", "trim", "count", "add", "expire"} \cup Finished
Member == [member : Call, score : Nat]
LimiterCall == [pc : Pc, window : DOMAIN Windows, now : Nat]
\* A request let through: the time of its entry and of its answer, and
\* whether the entry was there to be given a time to live.
Admission == [window : Window, member : Call, at : Nat, done : Nat, kept : BOOLEAN]

ASSUME LimiterAssumption ==
    /\ Windows \in Seq(Window) \ {<<>>}
    /\ Limit \in [Window -> Nat \ {0}] /\ Length \in [Window -> Nat \ {0}]
    /\ Concurrency \in Nat \ {0} /\ MayCrash \in BOOLEAN
    /\ MaxTime \in Nat
    /\ NoCall \notin LimiterCall

VARIABLES time,       \* the clock, as time() reads it
          zset,       \* zset[w]: {[member, score]}
          ttl,        \* ttl[w]: when Redis drops the key, or -1
          call,       \* call[c]: where a call has got to
          admitted    \* what the limiters let through and when, seen from outside

limiterVars == <<time, zset, ttl, call, admitted>>

LimiterTypeOK ==
    /\ time \in 0..MaxTime
    /\ zset \in [Window -> SUBSET Member]
    /\ ttl \in [Window -> Int]
    /\ call \in [Call -> LimiterCall \cup {NoCall}]
    /\ admitted \subseteq Admission

LimiterInit ==
    /\ time = 0
    /\ zset = [w \in Window |-> {}]
    /\ ttl = [w \in Window |-> -1]
    /\ call = [c \in Call |-> NoCall]
    /\ admitted = {}

Running(c) == call[c] # NoCall /\ call[c].pc \notin Finished

At(c, pc) == call[c] # NoCall /\ call[c].pc = pc
KeyOf(c) == Windows[call[c].window]
Entry(c) == [member |-> c, score |-> call[c].now]
Goto(c, pc) == call' = [call EXCEPT ![c].pc = pc]

\* A call that has ended keeps nothing but its answer.
End(c, pc) == call' = [call EXCEPT ![c] = [pc |-> pc, window |-> 1, now |-> 0]]

\* The answer of one limiter: the next window is asked, or True returned.
LetThrough(c) ==
    /\ admitted' = admitted \cup
          {[window |-> KeyOf(c), member |-> c, at |-> call[c].now, done |-> time,
            kept |-> Entry(c) \in zset[KeyOf(c)]]}
    /\ IF call[c].window = Len(Windows) THEN End(c, "allowed")
       ELSE call' = [call EXCEPT ![c] =
               [pc |-> "clock", window |-> @.window + 1, now |-> 0]]

-----------------------------------------------------------------------------

Begin(c) ==
    /\ call[c] = NoCall
    /\ Cardinality({d \in Call : Running(d)}) < Concurrency
    /\ call' = [call EXCEPT ![c] = [pc |-> "clock", window |-> 1, now |-> 0]]
    /\ UNCHANGED <<time, zset, ttl, admitted>>

\* now = time()
ReadClock(c) ==
    /\ At(c, "clock")
    /\ call' = [call EXCEPT ![c].pc = "trim", ![c].now = time]
    /\ UNCHANGED <<time, zset, ttl, admitted>>

\* zremrangebyscore(key, "-inf", window_start); an empty set is no key
Trim(c) ==
    /\ At(c, "trim")
    /\ zset' = [zset EXCEPT ![KeyOf(c)] =
          {m \in @ : m.score > call[c].now - Length[KeyOf(c)]}]
    /\ ttl' = [ttl EXCEPT ![KeyOf(c)] =
          IF zset'[KeyOf(c)] = {} THEN -1 ELSE @]
    /\ Goto(c, "count")
    /\ UNCHANGED <<time, admitted>>

\* a faulty variant: one request too many
CountTooLate(c) ==
    /\ At(c, "count")
    /\ LET inWindow == {m \in zset[KeyOf(c)] :
                           m.score >= call[c].now - Length[KeyOf(c)]}
       IN  IF Cardinality(inWindow) > Limit[KeyOf(c)]
           THEN End(c, "denied") ELSE Goto(c, "add")
    /\ UNCHANGED <<time, zset, ttl, admitted>>

\* zcount(key, window_start, "+inf"), and the comparison with the limit
Count(c) ==
    /\ At(c, "count")
    /\ LET inWindow == {m \in zset[KeyOf(c)] :
                           m.score >= call[c].now - Length[KeyOf(c)]}
       IN  IF Cardinality(inWindow) >= Limit[KeyOf(c)]
           THEN End(c, "denied") ELSE Goto(c, "add")
    /\ UNCHANGED <<time, zset, ttl, admitted>>

\* zadd(key, {uuid4: now})
Add(c) ==
    /\ At(c, "add")
    /\ zset' = [zset EXCEPT ![KeyOf(c)] = @ \cup {Entry(c)}]
    /\ Goto(c, "expire")
    /\ UNCHANGED <<time, ttl, admitted>>

\* a faulty variant: the key only gets a time to live when it has none
SetTtlOnce(c) ==
    /\ At(c, "expire")
    /\ ttl' = [ttl EXCEPT ![KeyOf(c)] =
          IF @ = -1 THEN time + Length[KeyOf(c)] ELSE @]
    /\ LetThrough(c)
    /\ UNCHANGED <<time, zset>>

\* expire(key, window_seconds), which does nothing when the key is gone;
\* then the next window, or True
SetTtl(c) ==
    /\ At(c, "expire")
    /\ ttl' = [ttl EXCEPT ![KeyOf(c)] =
          IF zset[KeyOf(c)] = {} THEN -1 ELSE time + Length[KeyOf(c)]]
    /\ LetThrough(c)
    /\ UNCHANGED <<time, zset>>

\* The process dies or Redis cannot be reached: what it did stays.
Crash(c) ==
    /\ MayCrash
    /\ Running(c)
    /\ End(c, "crashed")
    /\ UNCHANGED <<time, zset, ttl, admitted>>

\* Time passes, and Redis drops the keys whose time to live is over, the
\* entries of calls that have yet to renew it with them.
Tick ==
    /\ time < MaxTime
    /\ time' = time + 1
    /\ zset' = [w \in Window |-> IF ttl[w] = time' THEN {} ELSE zset[w]]
    /\ ttl' = [w \in Window |-> IF ttl[w] = time' THEN -1 ELSE ttl[w]]
    /\ UNCHANGED <<call, admitted>>

Step(c) == \/ Begin(c) \/ ReadClock(c) \/ Trim(c) \/ Count(c) \/ Add(c)
           \/ SetTtl(c) \/ Crash(c)

LimiterNext == Tick \/ \E c \in Call : Step(c)

LimiterSpec == LimiterInit /\ [][LimiterNext]_limiterVars

-----------------------------------------------------------------------------

\* The requests a limiter let through that were made and answered in the
\* window that ends at t, by whether their entry was there to be renewed.
Through(w, t, kept) ==
    {c \in Call : \E a \in admitted :
        /\ a.window = w /\ a.member = c /\ a.kept = kept
        /\ t - Length[w] < a.at /\ a.done <= t}

(* docs/AUTH.md: "If the limit has been reached, the request is rejected." *)
(* Of the requests made and answered in any one window, a limiter lets     *)
(* through no more than its limit and one for each other call under way,   *)
(* as zcount and zadd are separate commands; and no more than one per call *)
(* under way goes uncounted since the key's earlier time to live ended     *)
(* between its zadd and its expire.  Slow calls that trim by an old clock, *)
(* and crashes, let no other through (sliding_window_limiter).             *)
OverrunBounded ==
    \A w \in Window, t \in 0..MaxTime :
        /\ Cardinality(Through(w, t, TRUE)) <= Limit[w] + Concurrency - 1
        /\ Cardinality(Through(w, t, FALSE)) <= Concurrency

(* Once a request's key has been given its time to live, the request is    *)
(* counted against later ones for as long as its window lasts: neither the *)
(* trimming of slow or later calls nor the end of a time to live, which    *)
(* any request renews, takes its entry away before (limiter.py: "Expire    *)
(* the key automatically once it has been inactive for an entire window"). *)
AdmittedIsCounted ==
    \A a \in admitted : a.kept /\ time < a.at + Length[a.window] =>
        [member |-> a.member, score |-> a.at] \in zset[a.window]

(* Between calls, every sorted set has a time to live that ends no earlier *)
(* than its entries, except for those of calls that died (between zadd and *)
(* expire; docs/AUTH.md: "Redis automatically expires inactive keys using  *)
(* TTL"), also when the key was dropped and made again under a call.       *)
EveryKeyExpires ==
    (\A c \in Call : ~Running(c)) =>
        \A w \in Window : \A m \in zset[w] :
            \/ At(m.member, "crashed")
            \/ m.score + Length[w] <= ttl[w]
=============================================================================
