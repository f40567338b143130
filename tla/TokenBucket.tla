---------------------------- MODULE TokenBucket ----------------------------
(***************************************************************************)
(* What a rate limiter promises for one client: a bucket that holds at     *)
(* most Burst tokens, fills at Rate, and gives one token to each admitted  *)
(* request.  It may leak (a limiter may be stricter than it has to be) and *)
(* it may be reset, which begins a new history.                            *)
(***************************************************************************)
EXTENDS Integers, Sequences

CONSTANTS
    Rate,           \* what flows in per tick
    Cost,           \* what a request takes: one token
    Burst           \* how many tokens the bucket holds

Full == Burst * Cost

VARIABLES now, level, admits

bucket == <<now, level, admits>>

Init == now = 0 /\ level = Full /\ admits = <<>>

\* The level at time t if nothing is taken and nothing leaks.
Filled(t) ==
    IF level + Rate * (t - now) > Full THEN Full ELSE level + Rate * (t - now)

Pass ==
    /\ now' \in Nat /\ now' >= now
    /\ level' \in 0 .. Filled(now')
    /\ UNCHANGED admits

Admit ==
    /\ now' \in Nat /\ now' >= now
    /\ level' \in 0 .. (Filled(now') - Cost)
    /\ admits' = Append(admits, now')

Restart ==
    /\ now' = now
    /\ level' = Full
    /\ admits' = <<>>

Next == Pass \/ Admit \/ Restart

Spec == Init /\ [][Next]_bucket

\* The state's own parameters, as far as Conforms depends on them.
TypeOK == now \in Nat /\ level \in 0 .. Full /\ admits \in Seq(Nat)

\* What was given since any admitted request, and what is left, is at most a
\* full bucket and what flowed in since: the reason for Conforms.
Credit ==
    \A i \in DOMAIN admits :
        /\ admits[i] <= now
        /\ (Len(admits) - i + 1) * Cost + level <= Full + Rate * (now - admits[i])

\* In any stretch of time the bucket admits no more than a full bucket and
\* what flowed in meanwhile.
Conforms ==
    \A j \in DOMAIN admits : \A i \in 1 .. j :
        (j - i + 1) * Cost <= Full + Rate * (admits[j] - admits[i])
=============================================================================
