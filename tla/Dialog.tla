------------------------------- MODULE Dialog -------------------------------
(***************************************************************************)
(* The one dialog (#modal) every page of the site shows its forms in, as   *)
(* Bootstrap's modal plugin moves it: it is up at once when shown and      *)
(* fades out when hidden, and 'hidden' is triggered only when the fade     *)
(* ends.  A backdrop keeps the page's own links from being clicked until   *)
(* then.                                                                   *)
(***************************************************************************)

VARIABLES isShown,         \* the plugin's flag: shown, and not hidden since
          visible,         \* the element is displayed
          closing,         \* it was hidden and the fade has not ended
          stuck            \* a backdrop is left that no hide will remove

dialogVars == <<isShown, visible, closing, stuck>>

DialogTypeOK ==
  /\ isShown \in BOOLEAN
  /\ visible \in BOOLEAN
  /\ closing \in BOOLEAN
  /\ stuck \in BOOLEAN

DialogInit ==
  /\ isShown = FALSE
  /\ visible = FALSE
  /\ closing = FALSE
  /\ stuck = FALSE

\* show: nothing if it is shown.  A show during the fade makes a second
\* backdrop, and the plugin forgets the first.
Show ==
  /\ isShown' = TRUE
  /\ visible' = (visible \/ ~isShown)
  /\ stuck' = (stuck \/ (~isShown /\ closing))
  /\ UNCHANGED closing

\* hide: nothing if it is not shown.
Hide ==
  /\ isShown' = FALSE
  /\ closing' = (closing \/ isShown)
  /\ UNCHANGED <<visible, stuck>>

\* hideModal, when the fade ends; the 'hidden' handlers are the page's.  A
\* dialog shown again in the meantime disappears and gets another backdrop.
FadeEnds ==
  /\ closing
  /\ closing' = FALSE
  /\ visible' = FALSE
  /\ UNCHANGED <<isShown, stuck>>

\* The page behind can be clicked: no backdrop covers it.
PageIsFree == ~isShown /\ ~closing /\ ~stuck

=============================================================================
