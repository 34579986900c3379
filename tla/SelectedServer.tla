--------------------------- MODULE SelectedServer ----------------------------
(***************************************************************************)
(* What changing servers promises the reader of the feed: the feed is       *)
(* blank, or it comes from the server that is selected now.  Selecting      *)
(* blanks it.  A look-up can also go wrong and leave a broken feed, which   *)
(* only a new selection or a new start of the view ends.                    *)
(***************************************************************************)
CONSTANTS Servers, Blank, Broken

VARIABLES
  wanted,   \* the server the user has selected
  shown     \* the server the feed comes from

TypeOK == /\ wanted \in Servers
          /\ shown \in Servers \cup {Blank, Broken}

Init == wanted \in Servers /\ shown = Blank

Select == wanted' \in Servers /\ shown' = Blank

Reveal == /\ shown = Blank
          /\ shown' \in {wanted, Broken}
          /\ wanted' = wanted

Next == Select \/ Reveal

Spec == Init /\ [][Next]_<<wanted, shown>>
=============================================================================
