------------------------------- MODULE TicketPage -------------------------------
(***************************************************************************)
(* The page of a ticket (TicketPreviewComponent): it is loaded, printed to *)
(* a PDF in one of two ways, and cancelled.                                *)
(***************************************************************************)
EXTENDS PageCalls

CONSTANT None

VARIABLES
  here,                    \* the component has not been destroyed
  isLoading,
  ticket,                  \* None, or whether its template is "static" or "custom"
  isDownloading,           \* the button of the download is disabled
  job,                     \* what the PDF waits for, or None
  showCancelConfirmation

download == <<isDownloading, job>>
vars == <<calls, here, isLoading, ticket, download, showCancelConfirmation>>

Load == Call("load", None)
Cancellation == Call("cancel", None)

-----------------------------------------------------------------------------

Loaded(design) ==
  /\ Answered(Load, {})
  /\ isLoading' = FALSE
  /\ ticket' = design
  /\ UNCHANGED <<here, download, showCancelConfirmation>>

\* The code of the ticket is drawn for a static template; a custom one is fetched.
DownloadPdf ==
  /\ here /\ ~ isLoading /\ ticket # None /\ ~ isDownloading
  /\ isDownloading' = TRUE
  /\ job' = IF ticket = "custom" THEN "template" ELSE "fonts"
  /\ UNCHANGED <<calls, here, isLoading, ticket, showCancelConfirmation>>

\* Template fetched, then measured; fonts loaded, then drawn.
JobGoesOn ==
  /\ job \in {"template", "fonts"}
  /\ job' = IF job = "template" THEN "measure" ELSE "canvas"
  /\ UNCHANGED <<calls, here, isLoading, ticket, isDownloading, showCancelConfirmation>>

\* finish, after the last step or after an error of any step: a template that is
\* gone, a window that is blocked, a canvas that cannot be read.
JobEnds ==
  /\ job # None
  /\ job' = None
  /\ isDownloading' = FALSE
  /\ UNCHANGED <<calls, here, isLoading, ticket, showCancelConfirmation>>

CancelTicket ==
  /\ here /\ ~ isLoading /\ ticket # None /\ ~ showCancelConfirmation
  /\ showCancelConfirmation' = TRUE
  /\ UNCHANGED <<calls, here, isLoading, ticket, download>>

CloseConfirmation ==
  /\ here /\ showCancelConfirmation
  /\ showCancelConfirmation' = FALSE
  /\ UNCHANGED <<calls, here, isLoading, ticket, download>>

ConfirmCancelTicket ==
  /\ here /\ showCancelConfirmation
  /\ Send(Cancellation)
  /\ showCancelConfirmation' = FALSE
  /\ UNCHANGED <<here, isLoading, ticket, download>>

\* The seating map is opened, from wherever the user is by now.
Cancelled ==
  /\ Answered(Cancellation, {})
  /\ here' = FALSE
  /\ UNCHANGED <<isLoading, ticket, download, showCancelConfirmation>>

CancellationFailed ==
  /\ Answered(Cancellation, {})
  /\ UNCHANGED <<here, isLoading, ticket, download, showCancelConfirmation>>

GoBack ==
  /\ here
  /\ here' = FALSE
  /\ UNCHANGED <<calls, isLoading, ticket, download, showCancelConfirmation>>

-----------------------------------------------------------------------------

Init ==
  /\ calls = SetToBag({Load})
  /\ here = TRUE
  /\ isLoading = TRUE
  /\ ticket = None
  /\ isDownloading = FALSE /\ job = None
  /\ showCancelConfirmation = FALSE

Next ==
  \/ \E design \in {None, "static", "custom"} : Loaded(design)
  \/ DownloadPdf \/ JobGoesOn \/ JobEnds
  \/ CancelTicket \/ CloseConfirmation \/ ConfirmCancelTicket
  \/ Cancelled \/ CancellationFailed
  \/ GoBack

Spec == Init /\ [][Next]_vars

-----------------------------------------------------------------------------

\* The loader and the disabled download end: whatever fails on the way to a PDF,
\* in a promise of three awaits, the button comes back.
SpinnersEnd ==
  /\ isLoading => UnderWay("load")
  /\ isDownloading => job # None

=============================================================================
