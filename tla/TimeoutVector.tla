--------------------------- MODULE TimeoutVector ---------------------------
(***************************************************************************)
(* Operations on the vectors in which linuxpp::ioloop keeps timeouts: the  *)
(* entries have at least a handle and a timeout, and are sorted by the     *)
(* latter.                                                                 *)
(***************************************************************************)
EXTENDS Naturals, SequencesExt

HandlesOf(s) == {s[j].handle : j \in DOMAIN s}

\* The entry remove_timeout finds for a handle.
IndexOf(s, h) == CHOOSE k \in DOMAIN s : s[k].handle = h

\* std::lower_bound: the first position whose timeout is not before t.
LowerBound(s, t) ==
  CHOOSE k \in 1..(Len(s) + 1) :
    /\ \A j \in 1..(k - 1) : s[j].timeout < t
    /\ \A j \in k..Len(s) : s[j].timeout >= t

\* Mutant: the new entry goes to the end.
InsertTimeout_AtEnd(s, e) == Append(s, e)

InsertTimeout(s, e) == InsertAt(s, LowerBound(s, e.timeout), e)
=============================================================================
