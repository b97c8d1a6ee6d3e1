-------------------------------- MODULE Lists --------------------------------
(***************************************************************************)
(* The loop the gateway filters its lists with.                            *)
(***************************************************************************)
EXTENDS Naturals, Sequences

\* The members of S, in the order of the list.
Only(list, S) ==
  LET out[i \in 0..Len(list)] ==
        IF i = 0 THEN <<>>
        ELSE IF list[i] \in S THEN Append(out[i - 1], list[i]) ELSE out[i - 1]
  IN  out[Len(list)]

=============================================================================
