----------------------------- MODULE FeedContract -----------------------------
(***************************************************************************)
(* What the listener promises the engine about its two output files: the   *)
(* feed (signals.txt, here the numbered lines of one day) and the override *)
(* journal (signal_overrides.jsonl).  The engine sees nothing else of the  *)
(* listener, so this is all it may rely on, crashes included: a change of  *)
(* the feed is announced at most once and never before it is made, and a   *)
(* crash may leave a change unannounced.                                   *)
(***************************************************************************)
EXTENDS Integers, Sequences

CONSTANTS Signals,   \* the price sets a signal can carry
          Minutes,   \* post times
          NoSignal   \* a record that carries no prices

VARIABLES feed,      \* set of lines
          journal,   \* the override records, in the order they were appended
          listed     \* history: every number a line ever had

vars == <<feed, journal, listed>>

Number == Nat \ {0}
Line   == [n : Number, body : Signals, minute : Minutes]
Record == [action : {"amend", "revoke"}, n : Number, body : Signals \cup {NoSignal}]

Numbers(f)  == {l.n : l \in f}
Amend(n, b) == [action |-> "amend", n |-> n, body |-> b]
Revoke(n)   == [action |-> "revoke", n |-> n, body |-> NoSignal]

Announce(r) == journal' = Append(journal, r)
Silently    == UNCHANGED journal

-----------------------------------------------------------------------------

Init == feed = {} /\ journal = <<>> /\ listed = {}

\* A new line is numbered just above every other one and repeats no content.
AddLine(n, body, minute) ==
    /\ \A l \in feed : l.n < n /\ ~(l.body = body /\ l.minute = minute)
    /\ feed' = feed \cup {[n |-> n, body |-> body, minute |-> minute]}
    /\ listed' = listed \cup {n}
    /\ Silently

\* An edit keeps the number and the post time.
RewriteLine(l, body) ==
    /\ l \in feed /\ body # l.body
    /\ feed' = (feed \ {l}) \cup {[l EXCEPT !.body = body]}
    /\ UNCHANGED listed
    /\ Announce(Amend(l.n, body)) \/ Silently

RemoveLine(l) ==
    /\ l \in feed
    /\ feed' = feed \ {l}
    /\ UNCHANGED listed
    /\ Announce(Revoke(l.n)) \/ Silently

\* A revoke of a line that is already gone is still announced.
RevokeAgain(n) ==
    /\ n \in listed \ Numbers(feed)
    /\ UNCHANGED <<feed, listed>>
    /\ Announce(Revoke(n))

Next ==
    \/ \E n \in {1} \cup {k + 1 : k \in Numbers(feed)}, body \in Signals, minute \in Minutes :
          AddLine(n, body, minute)
    \/ \E l \in feed : RemoveLine(l) \/ \E body \in Signals : RewriteLine(l, body)
    \/ \E n \in listed : RevokeAgain(n)

Spec == Init /\ [][Next]_vars
=============================================================================
