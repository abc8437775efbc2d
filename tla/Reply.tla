-------------------------------- MODULE Reply --------------------------------
(***************************************************************************)
(* What a client is promised of one accepted request: any number of output *)
(* pieces, numbered from 0, then at most one end - the result, or an error *)
(* - and nothing after it.  A request that is abandoned at stop() has no   *)
(* end.                                                                    *)
(***************************************************************************)
EXTENDS Naturals

VARIABLES
    pieces,   \* how many pieces of output the client has
    end       \* "none", "result" or "error"

ReplyInit == pieces = 0 /\ end = "none"

Piece == end = "none" /\ pieces' = pieces + 1 /\ UNCHANGED end

End == end = "none" /\ end' \in {"result", "error"} /\ UNCHANGED pieces

ReplySpec == ReplyInit /\ [][Piece \/ End]_<<pieces, end>>
==============================================================================
