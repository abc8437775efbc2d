-------------------------- MODULE MCRequestHandling --------------------------
(***************************************************************************)
(* Instances of RequestHandling for TLC.                                   *)
(***************************************************************************)
EXTENDS RequestHandling

\* Every combination of the switches, with no attempt allowed, one, two or three.
EveryRequest ==
    [max_retries : -1..2, timeout : BOOLEAN, deadline : BOOLEAN, waits : BOOLEAN, mock : BOOLEAN,
     enstream : BOOLEAN, enoutput : BOOLEAN]

==============================================================================
