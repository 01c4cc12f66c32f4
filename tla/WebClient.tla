------------------------------- MODULE WebClient -------------------------------
(***************************************************************************)
(* The pages of the web client.  The router shows one page at a time and a *)
(* page shares nothing with the next but the session, which is the module  *)
(* Session: it or one of the pages is chosen at the beginning, and a page  *)
(* uses the slots s1, s2, ... for its variables, in their order.           *)
(***************************************************************************)
EXTENDS Session, Integers

CONSTANTS
  Rooms, Tables, Chairs, TableRoom, TableOf, Neighbour,   \* of SeatingPage
  Clients, Accounts, Events, ClientOf,
  BuiltIn, Custom, Classic,                               \* themes
  MaxCheckouts, MaxPolls,                                 \* bounds of BillingPage,
  MaxUnanswered,                                          \* of SeatingPage,
  MaxTables, MaxChairs, MaxSessions,                      \* of EventEditor
  MaxVenueCalls,                                          \* and of VenuesPage
  None

VARIABLES open, s1, s2, s3, s4, s5, s6, s7, s8, s9, s10, s11, s12, s13

slots == <<s1, s2, s3, s4, s5, s6, s7, s8, s9, s10, s11, s12, s13>>
pages == <<open, slots, vars>>

Scanner == INSTANCE ScannerPage WITH
  here <- s1, camera <- s2, stream <- s3, frame <- s4, isSubmitting <- s5,
  scanResult <- s6, timer <- s7, manualToken <- s8, replaying <- s9, leftWith <- s10
Billing == INSTANCE BillingPage WITH
  here <- s1, calls <- s2, isLoading <- s3, offered <- s4, selectedPlan <- s5,
  checkoutLoading <- s6, sent <- s7, checkouts <- s8, fate <- s9, intervals <- s10,
  pollTimer <- s11, polls <- s12
Seating == INSTANCE SeatingPage WITH
  here <- s1, loads <- s2, isLoading <- s3, occupancy <- s4, expired <- s5,
  selectedRoomId <- s6, selectedTable <- s7, selectedChair <- s8,
  reservationType <- s9, pendingCancel <- s10, calls <- s11
Editor == INSTANCE EventEditor WITH
  here <- s1, loading <- s2, isDraft <- s3, isExpired <- s4, filled <- s5,
  selectedRoomIds <- s6, activeRoomId <- s7, tablesByRoom <- s8,
  selectedTable <- s9, tableCount <- s10, chairsPerTable <- s11, sessions <- s12,
  calls <- s13
ClientList == INSTANCE ClientsPage WITH
  calls <- s1, isLoading <- s2, form <- s3, isSubmitting <- s4, processingId <- s5,
  confirming <- s6, selectedSubClient <- s7, subLoading <- s8, subSummary <- s9,
  isGranting <- s10
Staff == INSTANCE StaffPage WITH
  calls <- s1, isLoadingList <- s2, isSubmitting <- s3, processingId <- s4,
  confirming <- s5, activeAssignAccount <- s6, selectedEventId <- s7,
  activeRemoveAssignment <- s8
Venues == INSTANCE VenuesPage WITH
  MaxCalls <- MaxVenueCalls, calls <- s1, isLoading <- s2, isCreatingBuilding <- s3,
  isSubmitting <- s4, showCreateModal <- s5, showBuildingForm <- s6,
  buildingChosen <- s7, confirming <- s8
Guests == INSTANCE GuestListPage WITH
  calls <- s1, selectedClientId <- s2, isLoadingEvents <- s3, isLoadingGuests <- s4,
  events <- s5, selectedEvent <- s6, viewAll <- s7, occupancy <- s8,
  aggregated <- s9, pendingCancel <- s10
Templates == INSTANCE TemplatesPage WITH
  calls <- s1, rows <- s2, event <- s3, templates <- s4, theme <- s5, current <- s6,
  selected <- s7, saving <- s8, wizard <- s9
Ticket == INSTANCE TicketPage WITH
  calls <- s1, here <- s2, isLoading <- s3, ticket <- s4, isDownloading <- s5,
  job <- s6, showCancelConfirmation <- s7

\* None is neither a step of a download nor an object of the seating map.
ASSUME WebClientConstants ==
  /\ Billing!BillingConstants
  /\ Seating!SeatingConstants
  /\ Editor!EditorConstants
  /\ None \notin {"template", "fonts", "measure", "canvas"}
  /\ None \notin [id : Tables \cup Chairs, in : Seating!Occupancies]

-----------------------------------------------------------------------------

From8 == <<s8, s9, s10, s11, s12, s13>>
From9 == <<s9, s10, s11, s12, s13>>
From10 == <<s10, s11, s12, s13>>
From11 == <<s11, s12, s13>>
From12 == <<s12, s13>>
From13 == <<s13>>

Idle13 == s13 = None
Idle12 == s12 = None /\ Idle13
Idle11 == s11 = None /\ Idle12
Idle10 == s10 = None /\ Idle11
Idle9 == s9 = None /\ Idle10
Idle8 == s8 = None /\ Idle9
Idle1 ==
  /\ s1 = None /\ s2 = None /\ s3 = None /\ s4 = None
  /\ s5 = None /\ s6 = None /\ s7 = None /\ Idle8

NoSession ==
  /\ user = "none" /\ otpUsername = FALSE
  /\ page = "blank" /\ going = Nowhere /\ calls = {}

PagesInit ==
  \/ open = "session" /\ Init /\ Idle1
  \/ /\ NoSession
     /\ \/ open = "scanner" /\ Scanner!Init /\ Idle11
        \/ open = "billing" /\ Billing!Init /\ Idle13
        \/ open = "seating" /\ Seating!Init /\ Idle12
        \/ open = "editor" /\ Editor!Init
        \/ open = "clients" /\ ClientList!Init /\ Idle11
        \/ open = "staff" /\ Staff!Init /\ Idle9
        \/ open = "venues" /\ Venues!Init /\ Idle9
        \/ open = "guests" /\ Guests!Init /\ Idle11
        \/ open = "templates" /\ Templates!Init /\ Idle10
        \/ open = "ticket" /\ Ticket!Init /\ Idle8

PagesNext ==
  /\ UNCHANGED open
  /\ \/ open = "session" /\ Next /\ UNCHANGED slots
     \/ /\ UNCHANGED vars
        /\ \/ open = "scanner" /\ Scanner!Next /\ UNCHANGED From11
           \/ open = "billing" /\ Billing!Next /\ UNCHANGED From13
           \/ open = "seating" /\ Seating!Next /\ UNCHANGED From12
           \/ open = "editor" /\ Editor!Next
           \/ open = "clients" /\ ClientList!Next /\ UNCHANGED From11
           \/ open = "staff" /\ Staff!Next /\ UNCHANGED From9
           \/ open = "venues" /\ Venues!Next /\ UNCHANGED From9
           \/ open = "guests" /\ Guests!Next /\ UNCHANGED From11
           \/ open = "templates" /\ Templates!Next /\ UNCHANGED From10
           \/ open = "ticket" /\ Ticket!Next /\ UNCHANGED From8

PagesSpec == PagesInit /\ [][PagesNext]_pages

-----------------------------------------------------------------------------
(* The properties of the modules, each of the page it is about; that of    *)
(* Session is its own.                                                     *)

\* The gate never goes dead (ScannerPage).
NeverStuck == open = "scanner" => Scanner!NeverStuck

\* Nothing of a page that was left in peace stays alive (ScannerPage).
LeftQuietly == open = "scanner" => Scanner!LeftQuietly

\* No loader is shown and no button disabled unless a request is under way whose
\* answer ends it.  Left out are the scanner, of which NeverStuck is, and the event
\* editor, where loading is the very request the page waits for.
SpinnersEnd ==
  /\ open = "billing" => Billing!SpinnerEnds
  /\ open = "seating" => Seating!SpinnerEnds
  /\ open = "clients" => ClientList!SpinnersEnd
  /\ open = "staff" => Staff!SpinnersEnd
  /\ open = "venues" => Venues!SpinnersEnd
  /\ open = "guests" => Guests!SpinnersEnd
  /\ open = "templates" => Templates!SpinnersEnd
  /\ open = "ticket" => Ticket!SpinnersEnd

\* What the sidebar is about is in the occupancy at hand (SeatingPage).
SidebarIsCurrent == open = "seating" => Seating!SidebarIsCurrent

\* Tables are laid out in rooms of the event only (EventEditor).
LayoutFollowsRooms == open = "editor" => Editor!LayoutFollowsRooms

\* Singles and couples get tickets of one theme (TemplatesPage).
OneTheme == open = "templates" => Templates!OneTheme

=============================================================================
