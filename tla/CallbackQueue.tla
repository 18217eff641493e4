--------------------------- MODULE CallbackQueue ---------------------------
(***************************************************************************)
(* What linuxpp::ioloop promises to the callers of add_callback: the       *)
(* callbacks form one first-in first-out queue.  A callback leaves the     *)
(* queue exactly once: it is started, or it is abandoned together with     *)
(* those right behind it because a callback that ran before it threw.      *)
(***************************************************************************)
EXTENDS Naturals, Sequences

CONSTANT Callbacks

VARIABLES
  pending,   \* callbacks accepted and not yet started, oldest first
  settled,   \* callbacks that left the queue, in the order they left it
  lost       \* the settled callbacks that were abandoned, not started

vars == <<pending, settled, lost>>

Members(s) == {s[i] : i \in DOMAIN s}

Init ==
  /\ pending = <<>>
  /\ settled = <<>>
  /\ lost = {}

\* A caller hands in a callback object that was not handed in before.
Submit(c) ==
  /\ c \notin Members(pending) \cup Members(settled)
  /\ pending' = Append(pending, c)
  /\ UNCHANGED <<settled, lost>>

\* The loop starts the oldest callback.
RunNext ==
  /\ pending # <<>>
  /\ pending' = Tail(pending)
  /\ settled' = Append(settled, Head(pending))
  /\ UNCHANGED lost

\* An exception of a running callback takes the n oldest waiting ones along.
Abandon ==
  \E n \in 1..Len(pending) :
    LET gone == SubSeq(pending, 1, n)
    IN  /\ pending' = SubSeq(pending, n + 1, Len(pending))
        /\ settled' = settled \o gone
        /\ lost' = lost \cup Members(gone)

Next == RunNext \/ Abandon \/ \E c \in Callbacks : Submit(c)

Spec == Init /\ [][Next]_vars
=============================================================================
