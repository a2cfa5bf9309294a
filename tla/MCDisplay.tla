------------------------------ MODULE MCDisplay ------------------------------
(* Transactions for model checking the display. *)
EXTENDS Display

CONSTANTS e, f, g, \* files; e has no size
          k,       \* a package
          h, i, j  \* hooks

Transactions ==
  {[keys |-> {f, g}, pre |-> <<>>, post |-> <<>>],
   [keys |-> {e, f, k}, pre |-> <<h>>, post |-> <<>>],
   [keys |-> {k}, pre |-> <<h, i>>, post |-> <<j>>]}
==============================================================================
