---------------------------- MODULE WebClientProofs ----------------------------
(***************************************************************************)
(* That the pages of the web client keep their promises, for any sets of   *)
(* rooms, clients, staff, events and themes and any number of requests     *)
(* under way.                                                              *)
(*                                                                         *)
(* What a page waits for needs one argument, given once for all pages: an  *)
(* answer takes one request out of the bag and ends no wait for another    *)
(* kind of request, and a request that is sent ends none (Goes, Adds).     *)
(* Then come the invariants of the pages, one after the other, in terms of *)
(* the slots they use, and at the end all of them together.                *)
(***************************************************************************)
EXTENDS WebClient, SessionProofs, Bags, FiniteSetTheorems, SequenceTheorems

-----------------------------------------------------------------------------
(* One page at a time.                                                     *)

\* The page that is open takes its own steps, and the session takes its own.
LEMMA OnePageSteps ==
  ASSUME [PagesNext]_pages
  PROVE  /\ open' = open
         /\ [Next]_vars
         /\ open = "scanner" => Scanner!Next \/ UNCHANGED Scanner!vars
         /\ open = "billing" => Billing!Next \/ UNCHANGED Billing!vars
         /\ open = "seating" => Seating!Next \/ UNCHANGED Seating!vars
         /\ open = "editor" => Editor!Next \/ UNCHANGED Editor!vars
         /\ open = "clients" => ClientList!Next \/ UNCHANGED ClientList!vars
         /\ open = "staff" => Staff!Next \/ UNCHANGED Staff!vars
         /\ open = "venues" => Venues!Next \/ UNCHANGED Venues!vars
         /\ open = "guests" => Guests!Next \/ UNCHANGED Guests!vars
         /\ open = "templates" => Templates!Next \/ UNCHANGED Templates!vars
         /\ open = "ticket" => Ticket!Next \/ UNCHANGED Ticket!vars
<1>1. CASE PagesNext
  BY <1>1 DEF PagesNext
<1>2. CASE UNCHANGED pages
  <2>1. UNCHANGED <<open, vars, s1, s2, s3, s4, s5, s6, s7, s8, s9, s10, s11, s12, s13>>
    BY <1>2 DEF pages, slots
  <2> QED
    BY <2>1 DEF Scanner!vars, Scanner!still, Scanner!input,
       Billing!vars, Billing!loading, Billing!dialog, Billing!paying,
       Seating!vars, Editor!vars, Editor!event, Editor!layout,
       ClientList!vars, ClientList!form_, ClientList!rows, ClientList!subscription,
       Staff!vars, Staff!dialogs, Staff!assigning, Venues!vars, Venues!flags, Venues!dialog,
       Guests!vars, Guests!loaders, Guests!view, Guests!guests,
       Templates!vars, Templates!server, Templates!pairs, Ticket!vars, Ticket!download
<1> QED
  BY <1>1, <1>2

-----------------------------------------------------------------------------
(* The requests of a page are a bag.                                       *)

\* The request that was under way is answered, and the next ones are sent.
Took(call, next) == s1' = (s1 (-) SetToBag({call})) (+) SetToBag(next)

Added(call) == s1' = s1 (+) SetToBag({call})

LEMMA Answering ==
  ASSUME IsABag(s1), NEW call, NEW next, Took(call, next)
  PROVE  /\ IsABag(s1)'
         /\ \A c \in DOMAIN s1 : c # call => c \in DOMAIN s1'
         /\ \A c \in next : c \in DOMAIN s1'
         /\ \A c \in DOMAIN s1' : c \in DOMAIN s1 \/ c \in next
BY DEF Took, IsABag, BagToSet, SetToBag, BagIn, (+), (-)

LEMMA Sending ==
  ASSUME IsABag(s1), NEW call, Added(call)
  PROVE  /\ IsABag(s1)'
         /\ \A c : c \in DOMAIN s1' <=> c \in DOMAIN s1 \/ c = call
BY DEF Added, IsABag, BagToSet, SetToBag, BagIn, (+), (-)

LEMMA Loading ==
  ASSUME NEW S
  PROVE  IsABag(SetToBag(S)) /\ DOMAIN SetToBag(S) = S
BY DEF IsABag, SetToBag

\* What the page waits for.
Ops == {c.op : c \in DOMAIN s1}

\* An answer to a call with this op ends no other wait, and sends these calls.
Goes(op, next) ==
  /\ IsABag(s1)'
  /\ \A o \in Ops : o # op => o \in Ops'
  /\ \A c \in next : c.op \in Ops' /\ c \in DOMAIN s1'
  /\ \A c \in DOMAIN s1 : c.op # op => c \in DOMAIN s1'
  /\ \A c \in DOMAIN s1' : c \in DOMAIN s1 \/ c \in next

LEMMA AnswerWaits ==
  ASSUME IsABag(s1), NEW call, NEW next, Took(call, next)
  PROVE  Goes(call.op, next)
BY Answering DEF Goes, Ops

\* A call that is sent ends no wait.
Adds(call) ==
  /\ IsABag(s1)'
  /\ \A o \in Ops : o \in Ops'
  /\ call.op \in Ops'
  /\ \A c : c \in DOMAIN s1' <=> c \in DOMAIN s1 \/ c = call

LEMMA SendWaits ==
  ASSUME IsABag(s1), NEW call, Added(call)
  PROVE  Adds(call)
BY Sending DEF Adds, Ops

\* The bags of a page are those of the standard module.
LEMMA ClientListCalls ==
  ASSUME IsABag(s1)
  PROVE  /\ \A call : ClientList!Send(call) => Adds(call)
         /\ \A call, next : ClientList!Answered(call, next) => Goes(call.op, next) /\ call \in DOMAIN s1
         /\ \A op : ClientList!UnderWay(op) <=> op \in Ops
<1>1. ASSUME NEW call, ClientList!Send(call)
      PROVE  Added(call)
  BY <1>1 DEF ClientList!Send, Added, SetToBag, (+), ClientList!SetToBag, ClientList!(+)
<1>2. ASSUME NEW call, NEW next, ClientList!Answered(call, next)
      PROVE  Took(call, next) /\ call \in DOMAIN s1
  BY <1>2 DEF ClientList!Answered, Took, SetToBag, (+), (-), ClientList!BagToSet, ClientList!SetToBag,
              ClientList!BagIn, ClientList!(+), ClientList!(-)
<1>3. \A op : ClientList!UnderWay(op) <=> op \in Ops
  BY DEF ClientList!UnderWay, ClientList!BagToSet, Ops
<1> QED
  BY <1>1, <1>2, <1>3, SendWaits, AnswerWaits

LEMMA StaffCalls ==
  ASSUME IsABag(s1)
  PROVE  /\ \A call : Staff!Send(call) => Adds(call)
         /\ \A call, next : Staff!Answered(call, next) => Goes(call.op, next) /\ call \in DOMAIN s1
         /\ \A op : Staff!UnderWay(op) <=> op \in Ops
<1>1. ASSUME NEW call, Staff!Send(call)
      PROVE  Added(call)
  BY <1>1 DEF Staff!Send, Added, SetToBag, (+), Staff!SetToBag, Staff!(+)
<1>2. ASSUME NEW call, NEW next, Staff!Answered(call, next)
      PROVE  Took(call, next) /\ call \in DOMAIN s1
  BY <1>2 DEF Staff!Answered, Took, SetToBag, (+), (-), Staff!BagToSet, Staff!SetToBag,
              Staff!BagIn, Staff!(+), Staff!(-)
<1>3. \A op : Staff!UnderWay(op) <=> op \in Ops
  BY DEF Staff!UnderWay, Staff!BagToSet, Ops
<1> QED
  BY <1>1, <1>2, <1>3, SendWaits, AnswerWaits

LEMMA VenuesCalls ==
  ASSUME IsABag(s1)
  PROVE  /\ \A call : Venues!Send(call) => Adds(call)
         /\ \A call, next : Venues!Answered(call, next) => Goes(call.op, next) /\ call \in DOMAIN s1
         /\ \A op : Venues!UnderWay(op) <=> op \in Ops
<1>1. ASSUME NEW call, Venues!Send(call)
      PROVE  Added(call)
  BY <1>1 DEF Venues!Send, Added, SetToBag, (+), Venues!SetToBag, Venues!(+)
<1>2. ASSUME NEW call, NEW next, Venues!Answered(call, next)
      PROVE  Took(call, next) /\ call \in DOMAIN s1
  BY <1>2 DEF Venues!Answered, Took, SetToBag, (+), (-), Venues!BagToSet, Venues!SetToBag,
              Venues!BagIn, Venues!(+), Venues!(-)
<1>3. \A op : Venues!UnderWay(op) <=> op \in Ops
  BY DEF Venues!UnderWay, Venues!BagToSet, Ops
<1> QED
  BY <1>1, <1>2, <1>3, SendWaits, AnswerWaits

LEMMA GuestsCalls ==
  ASSUME IsABag(s1)
  PROVE  /\ \A call : Guests!Send(call) => Adds(call)
         /\ \A call, next : Guests!Answered(call, next) => Goes(call.op, next) /\ call \in DOMAIN s1
         /\ \A op : Guests!UnderWay(op) <=> op \in Ops
<1>1. ASSUME NEW call, Guests!Send(call)
      PROVE  Added(call)
  BY <1>1 DEF Guests!Send, Added, SetToBag, (+), Guests!SetToBag, Guests!(+)
<1>2. ASSUME NEW call, NEW next, Guests!Answered(call, next)
      PROVE  Took(call, next) /\ call \in DOMAIN s1
  BY <1>2 DEF Guests!Answered, Took, SetToBag, (+), (-), Guests!BagToSet, Guests!SetToBag,
              Guests!BagIn, Guests!(+), Guests!(-)
<1>3. \A op : Guests!UnderWay(op) <=> op \in Ops
  BY DEF Guests!UnderWay, Guests!BagToSet, Ops
<1> QED
  BY <1>1, <1>2, <1>3, SendWaits, AnswerWaits

LEMMA TemplatesCalls ==
  ASSUME IsABag(s1)
  PROVE  /\ \A call : Templates!Send(call) => Adds(call)
         /\ \A call, next : Templates!Answered(call, next) => Goes(call.op, next) /\ call \in DOMAIN s1
         /\ \A op : Templates!UnderWay(op) <=> op \in Ops
<1>1. ASSUME NEW call, Templates!Send(call)
      PROVE  Added(call)
  BY <1>1 DEF Templates!Send, Added, SetToBag, (+), Templates!SetToBag, Templates!(+)
<1>2. ASSUME NEW call, NEW next, Templates!Answered(call, next)
      PROVE  Took(call, next) /\ call \in DOMAIN s1
  BY <1>2 DEF Templates!Answered, Took, SetToBag, (+), (-), Templates!BagToSet, Templates!SetToBag,
              Templates!BagIn, Templates!(+), Templates!(-)
<1>3. \A op : Templates!UnderWay(op) <=> op \in Ops
  BY DEF Templates!UnderWay, Templates!BagToSet, Ops
<1> QED
  BY <1>1, <1>2, <1>3, SendWaits, AnswerWaits

LEMMA TicketCalls ==
  ASSUME IsABag(s1)
  PROVE  /\ \A call : Ticket!Send(call) => Adds(call)
         /\ \A call, next : Ticket!Answered(call, next) => Goes(call.op, next) /\ call \in DOMAIN s1
         /\ \A op : Ticket!UnderWay(op) <=> op \in Ops
<1>1. ASSUME NEW call, Ticket!Send(call)
      PROVE  Added(call)
  BY <1>1 DEF Ticket!Send, Added, SetToBag, (+), Ticket!SetToBag, Ticket!(+)
<1>2. ASSUME NEW call, NEW next, Ticket!Answered(call, next)
      PROVE  Took(call, next) /\ call \in DOMAIN s1
  BY <1>2 DEF Ticket!Answered, Took, SetToBag, (+), (-), Ticket!BagToSet, Ticket!SetToBag,
              Ticket!BagIn, Ticket!(+), Ticket!(-)
<1>3. \A op : Ticket!UnderWay(op) <=> op \in Ops
  BY DEF Ticket!UnderWay, Ticket!BagToSet, Ops
<1> QED
  BY <1>1, <1>2, <1>3, SendWaits, AnswerWaits

-----------------------------------------------------------------------------
(* ClientsPage: s2 is isLoading, s4 isSubmitting, s5 processingId,          *)
(* s8 subLoading, s10 isGranting.                                          *)

ClientsWait ==
  /\ IsABag(s1)
  /\ s2 \in BOOLEAN /\ s4 \in BOOLEAN /\ s8 \in BOOLEAN /\ s10 \in BOOLEAN
  /\ s2 => "load" \in Ops
  /\ s4 => "form" \in Ops
  /\ s5 # None => ClientList!Row(s5) \in DOMAIN s1
  /\ s8 => "subscription" \in Ops
  /\ s10 => "grant" \in Ops

LEMMA ClientsStep ==
  ASSUME ClientsWait, ClientList!Next \/ UNCHANGED ClientList!vars
  PROVE  ClientsWait'
<1> USE DEF ClientsWait, ClientList!form_, ClientList!rows, ClientList!subscription
<1>a. \A op, id : ClientList!Call(op, id).op = op /\ ClientList!Call(op, id).id = id
  BY DEF ClientList!Call
<1>b. /\ ClientList!Load.op = "load" /\ ClientList!Form.op = "form"
      /\ \A c : /\ ClientList!Row(c).op = "row"
                /\ ClientList!Subscription(c).op = "subscription"
                /\ ClientList!Grant(c).op = "grant" /\ ClientList!Renewal(c).op = "renewal"
  BY <1>a DEF ClientList!Load, ClientList!Form, ClientList!Row, ClientList!Subscription,
              ClientList!Grant, ClientList!Renewal
<1>1. CASE ClientList!LoadAnswered
  <2>1. Goes("load", {})
    BY <1>1, <1>b, ClientListCalls DEF ClientList!LoadAnswered
  <2> QED
    BY <1>1, <1>b, <2>1 DEF ClientList!LoadAnswered, Goes
<1>2. ASSUME NEW success \in BOOLEAN, ClientList!FormAnswered(success)
      PROVE  ClientsWait'
  <2>1. Goes("form", IF success THEN {ClientList!Load} ELSE {})
    BY <1>2, <1>b, ClientListCalls DEF ClientList!FormAnswered
  <2>2. success => "load" \in Ops'
    BY <1>b, <2>1 DEF Goes
  <2> QED
    BY <1>2, <1>b, <2>1, <2>2 DEF ClientList!FormAnswered, Goes
<1>3. ASSUME NEW success \in BOOLEAN, NEW c \in Clients, ClientList!RowAnswered(c, success)
      PROVE  ClientsWait'
  <2>1. Goes("row", IF success THEN {ClientList!Load} ELSE {})
    BY <1>3, <1>b, ClientListCalls DEF ClientList!RowAnswered
  <2>2. success => "load" \in Ops'
    BY <1>b, <2>1 DEF Goes
  <2> QED
    BY <1>3, <1>b, <2>1, <2>2 DEF ClientList!RowAnswered, Goes
<1>4. ASSUME NEW success \in BOOLEAN, NEW c \in Clients,
             ClientList!SubscriptionLoaded(c, success)
      PROVE  ClientsWait'
  <2>1. Goes("subscription", {})
    BY <1>4, <1>b, ClientListCalls DEF ClientList!SubscriptionLoaded
  <2> QED
    BY <1>4, <1>b, <2>1 DEF ClientList!SubscriptionLoaded, Goes
<1>5. ASSUME NEW success \in BOOLEAN, NEW call,
             ClientList!SubscriptionChanged(call, success)
      PROVE  ClientsWait'
  <2>1. /\ call.op \in {"grant", "renewal"}
        /\ Goes(call.op, IF success THEN {ClientList!Load, ClientList!Subscription(call.id)}
                         ELSE {})
    BY <1>5, ClientListCalls DEF ClientList!SubscriptionChanged
  <2>2. success => "load" \in Ops' /\ "subscription" \in Ops'
    BY <1>b, <2>1 DEF Goes
  <2> QED
    BY <1>5, <1>b, <2>1, <2>2 DEF ClientList!SubscriptionChanged, Goes
<1>6. CASE ClientList!SubmitForm
  <2>1. Adds(ClientList!Form)
    BY <1>6, ClientListCalls DEF ClientList!SubmitForm
  <2> QED
    BY <1>6, <1>b, <2>1 DEF ClientList!SubmitForm, Adds
<1>7. CASE ClientList!Confirm \/ \E c \in Clients : ClientList!Reactivate(c)
  <2>1. PICK c : Adds(ClientList!Row(c)) /\ s5' = c /\ UNCHANGED <<s2, s4, s8, s10>>
    BY <1>7, ClientListCalls DEF ClientList!Confirm, ClientList!Reactivate
  <2> QED
    BY <2>1 DEF Adds
<1>8. ASSUME NEW c \in Clients, ClientList!OpenSubscriptionModal(c)
      PROVE  ClientsWait'
  <2>1. Adds(ClientList!Subscription(c))
    BY <1>8, ClientListCalls DEF ClientList!OpenSubscriptionModal
  <2> QED
    BY <1>8, <1>b, <2>1 DEF ClientList!OpenSubscriptionModal, Adds
<1>9. CASE ClientList!GrantSubscription
  <2>1. Adds(ClientList!Grant(s7))
    BY <1>9, ClientListCalls DEF ClientList!GrantSubscription
  <2> QED
    BY <1>9, <1>b, <2>1 DEF ClientList!GrantSubscription, Adds
<1>10. CASE ClientList!ChangeRenewal
  <2>1. Adds(ClientList!Renewal(s7))
    BY <1>10, ClientListCalls DEF ClientList!ChangeRenewal
  <2> QED
    BY <1>10, <2>1 DEF ClientList!ChangeRenewal, Adds
<1>11. CASE UNCHANGED <<s1, s2, s4, s5, s8, s10>>
  BY <1>11 DEF Ops
<1>12. ASSUME \/ \E which \in Clients \cup {"create"} : ClientList!OpenForm(which)
              \/ ClientList!CloseFormModal \/ ClientList!CloseConfirmation
              \/ \E c \in Clients, question \in {"deactivate", "delete"} :
                   ClientList!Ask(question, c)
              \/ ClientList!CloseSubscriptionModal
              \/ UNCHANGED ClientList!vars
       PROVE  UNCHANGED <<s1, s2, s4, s5, s8, s10>>
  BY <1>12 DEF ClientList!OpenForm, ClientList!CloseFormModal, ClientList!CloseConfirmation,
               ClientList!Ask, ClientList!CloseSubscriptionModal, ClientList!vars
<1> QED
  BY <1>1, <1>2, <1>3, <1>4, <1>5, <1>6, <1>7, <1>8, <1>9, <1>10, <1>11, <1>12
  DEF ClientList!Next

-----------------------------------------------------------------------------
(* StaffPage: s2 is isLoadingList, s3 isSubmitting, s4 processingId.        *)

StaffWaits ==
  /\ IsABag(s1)
  /\ s2 \in BOOLEAN /\ s3 \in BOOLEAN
  /\ s2 => "load" \in Ops
  /\ s3 => "create" \in Ops
  /\ s4 # None => \E c \in DOMAIN s1 : c.op \in {"row", "assign", "remove"} /\ c.id = s4

LEMMA StaffStep ==
  ASSUME StaffWaits, Staff!Next \/ UNCHANGED Staff!vars
  PROVE  StaffWaits'
<1> USE DEF StaffWaits, Staff!assigning, Staff!dialogs
<1>a. \A op, id : Staff!Call(op, id).op = op /\ Staff!Call(op, id).id = id
  BY DEF Staff!Call
<1>b. /\ Staff!Load.op = "load" /\ Staff!Create.op = "create"
      /\ \A a : /\ Staff!Row(a).op = "row" /\ Staff!Row(a).id = a
                /\ Staff!Assign(a).op = "assign" /\ Staff!Assign(a).id = a
                /\ Staff!Remove(a).op = "remove" /\ Staff!Remove(a).id = a
  BY <1>a DEF Staff!Load, Staff!Create, Staff!Row, Staff!Assign, Staff!Remove
<1>1. CASE Staff!LoadAnswered
  <2>1. Goes("load", {})
    BY <1>1, <1>b, StaffCalls DEF Staff!LoadAnswered
  <2>2. s2' = FALSE /\ s3' = s3 /\ s4' = s4
    BY <1>1 DEF Staff!LoadAnswered
  <2> QED
    BY <2>1, <2>2 DEF Goes
<1>2. ASSUME NEW success \in BOOLEAN, Staff!Created(success)
      PROVE  StaffWaits'
  <2>1. Goes("create", IF success THEN {Staff!Load} ELSE {})
    BY <1>2, <1>b, StaffCalls DEF Staff!Created
  <2>2. success => "load" \in Ops'
    BY <1>b, <2>1 DEF Goes
  <2>3. s2' = (success \/ s2) /\ s3' = FALSE /\ s4' = s4
    BY <1>2 DEF Staff!Created
  <2> QED
    BY <2>1, <2>2, <2>3 DEF Goes
\* One flag for the rows and both dialogs: any of their answers takes it down.
<1>3. ASSUME NEW success \in BOOLEAN, NEW a \in Accounts,
             Staff!RowAnswered(a, success) \/ Staff!Assigned(a, success)
               \/ Staff!Removed(a, success)
      PROVE  StaffWaits'
  <2>1. PICK op \in {"row", "assign", "remove"} :
          Goes(op, IF success THEN {Staff!Load} ELSE {})
    BY <1>3, <1>b, StaffCalls DEF Staff!RowAnswered, Staff!Assigned, Staff!Removed
  <2>2. success => "load" \in Ops'
    BY <1>b, <2>1 DEF Goes
  <2>3. s2' = (success \/ s2) /\ s3' = s3 /\ s4' = None
    BY <1>3 DEF Staff!RowAnswered, Staff!Assigned, Staff!Removed
  <2> QED
    BY <2>1, <2>2, <2>3 DEF Goes
<1>4. CASE Staff!Submit
  <2>1. Adds(Staff!Create)
    BY <1>4, StaffCalls DEF Staff!Submit
  <2>2. s2' = s2 /\ s3' = TRUE /\ s4' = s4
    BY <1>4 DEF Staff!Submit
  <2> QED
    BY <1>b, <2>1, <2>2 DEF Adds
<1>5. CASE \/ Staff!Confirm \/ \E a \in Accounts : Staff!Reactivate(a)
           \/ Staff!AssignEvent \/ Staff!RemoveAssignment
  <2>1. PICK a : /\ Adds(Staff!Row(a)) \/ Adds(Staff!Assign(a)) \/ Adds(Staff!Remove(a))
                 /\ s4' = a /\ UNCHANGED <<s2, s3>>
    BY <1>5, StaffCalls
    DEF Staff!Confirm, Staff!Reactivate, Staff!AssignEvent, Staff!RemoveAssignment
  <2>2. \E c \in DOMAIN s1' : c.op \in {"row", "assign", "remove"} /\ c.id = a
    BY <1>b, <2>1 DEF Adds
  <2> QED
    BY <2>1, <2>2 DEF Adds
<1>6. CASE UNCHANGED <<s1, s2, s3, s4>>
  BY <1>6 DEF Ops
<1>7. ASSUME \/ Staff!CloseConfirmation \/ Staff!ChooseEvent \/ Staff!CloseAssignModal
             \/ Staff!CloseRemoveAssignmentModal
             \/ \E a \in Accounts :
                  \/ \E question \in {"deactivate", "delete"} : Staff!Ask(question, a)
                  \/ Staff!OpenAssignModal(a) \/ Staff!ConfirmRemoveAssignment(a)
             \/ UNCHANGED Staff!vars
      PROVE  UNCHANGED <<s1, s2, s3, s4>>
  BY <1>7 DEF Staff!CloseConfirmation, Staff!ChooseEvent, Staff!CloseAssignModal,
              Staff!CloseRemoveAssignmentModal, Staff!Ask, Staff!OpenAssignModal,
              Staff!ConfirmRemoveAssignment, Staff!vars
<1> QED
  BY <1>1, <1>2, <1>3, <1>4, <1>5, <1>6, <1>7 DEF Staff!Next

-----------------------------------------------------------------------------
(* VenuesPage: s2 is isLoading, s3 isCreatingBuilding, s4 isSubmitting.     *)

VenuesWait ==
  /\ IsABag(s1)
  /\ s2 \in BOOLEAN /\ s3 \in BOOLEAN /\ s4 \in BOOLEAN
  /\ s2 => "load" \in Ops
  /\ s3 => "building" \in Ops
  /\ s4 => "room" \in Ops

LEMMA VenuesStep ==
  ASSUME VenuesWait, Venues!Next \/ UNCHANGED Venues!vars
  PROVE  VenuesWait'
<1> USE DEF VenuesWait, Venues!flags, Venues!dialog
<1>a. \A op, id : Venues!Call(op, id).op = op
  BY DEF Venues!Call
<1>b. /\ Venues!Load.op = "load" /\ Venues!Building.op = "building"
      /\ Venues!Room.op = "room" /\ \A what : Venues!Deletion(what).op = "delete"
  BY <1>a DEF Venues!Load, Venues!Building, Venues!Room, Venues!Deletion
<1>1. CASE Venues!LoadAnswered
  <2>1. Goes("load", {})
    BY <1>1, <1>b, VenuesCalls DEF Venues!LoadAnswered
  <2>2. s2' = FALSE /\ s3' = s3 /\ s4' = s4
    BY <1>1 DEF Venues!LoadAnswered
  <2> QED
    BY <2>1, <2>2 DEF Goes
<1>2. ASSUME NEW success \in BOOLEAN, Venues!BuildingAnswered(success)
      PROVE  VenuesWait'
  <2>1. Goes("building", {})
    BY <1>2, <1>b, VenuesCalls DEF Venues!BuildingAnswered
  <2>2. s2' = s2 /\ s3' = FALSE /\ s4' = s4
    BY <1>2 DEF Venues!BuildingAnswered
  <2> QED
    BY <2>1, <2>2 DEF Goes
<1>3. ASSUME NEW success \in BOOLEAN, Venues!RoomAnswered(success)
      PROVE  VenuesWait'
  <2>1. Goes("room", IF success THEN {Venues!Load} ELSE {})
    BY <1>3, <1>b, VenuesCalls DEF Venues!RoomAnswered
  <2>2. success => "load" \in Ops'
    BY <1>b, <2>1 DEF Goes
  <2>3. s2' = (success \/ s2) /\ s3' = s3 /\ s4' = FALSE
    BY <1>3 DEF Venues!RoomAnswered
  <2> QED
    BY <2>1, <2>2, <2>3 DEF Goes
<1>4. ASSUME NEW what, Venues!DeletionAnswered(what)
      PROVE  VenuesWait'
  <2>1. Goes("delete", {})
    BY <1>4, <1>b, VenuesCalls DEF Venues!DeletionAnswered
  <2>2. s2' = s2 /\ s3' = s3 /\ s4' = s4
    BY <1>4 DEF Venues!DeletionAnswered
  <2> QED
    BY <2>1, <2>2 DEF Goes
<1>5. CASE Venues!CreateBuilding
  <2>1. Adds(Venues!Building)
    BY <1>5, VenuesCalls DEF Venues!CreateBuilding
  <2>2. s2' = s2 /\ s3' = TRUE /\ s4' = s4
    BY <1>5 DEF Venues!CreateBuilding
  <2> QED
    BY <1>b, <2>1, <2>2 DEF Adds
<1>6. CASE Venues!CreateRoom
  <2>1. Adds(Venues!Room)
    BY <1>6, VenuesCalls DEF Venues!CreateRoom
  <2>2. s2' = s2 /\ s3' = s3 /\ s4' = TRUE
    BY <1>6 DEF Venues!CreateRoom
  <2> QED
    BY <1>b, <2>1, <2>2 DEF Adds
<1>7. CASE Venues!ConfirmDelete
  <2>1. Adds(Venues!Deletion(s8))
    BY <1>7, VenuesCalls DEF Venues!ConfirmDelete
  <2>2. s2' = s2 /\ s3' = s3 /\ s4' = s4
    BY <1>7 DEF Venues!ConfirmDelete
  <2> QED
    BY <2>1, <2>2 DEF Adds
<1>8. CASE UNCHANGED <<s1, s2, s3, s4>>
  BY <1>8 DEF Ops
<1>9. ASSUME \/ \E chosen \in BOOLEAN : Venues!OpenCreateModal(chosen)
             \/ Venues!CloseCreate \/ Venues!ToggleBuildingForm \/ Venues!ChooseBuilding
             \/ \E what \in {"building", "room"} : Venues!Delete(what)
             \/ Venues!CloseConfirmation
             \/ UNCHANGED Venues!vars
      PROVE  UNCHANGED <<s1, s2, s3, s4>>
  BY <1>9 DEF Venues!OpenCreateModal, Venues!CloseCreate, Venues!ToggleBuildingForm,
              Venues!ChooseBuilding, Venues!Delete, Venues!CloseConfirmation, Venues!vars
<1> QED
  BY <1>1, <1>2, <1>3, <1>4, <1>5, <1>6, <1>7, <1>8, <1>9 DEF Venues!Next

-----------------------------------------------------------------------------
(* GuestListPage: s3 is isLoadingEvents, s4 isLoadingGuests.                *)

GuestsWait ==
  /\ IsABag(s1)
  /\ s3 \in BOOLEAN /\ s4 \in BOOLEAN
  /\ s3 => "events" \in Ops
  /\ s4 => "guests" \in Ops \/ "all" \in Ops

LEMMA GuestsStep ==
  ASSUME GuestsWait, Guests!Next \/ UNCHANGED Guests!vars
  PROVE  GuestsWait'
<1> USE DEF GuestsWait, Guests!loaders
<1>a. \A op, id : Guests!Call(op, id).op = op
  BY DEF Guests!Call
<1>b. /\ Guests!Load.op = "events" /\ Guests!Cancellation.op = "cancel"
      /\ \A e : Guests!Guests(e).op = "guests" /\ Guests!AllGuests(e).op = "all"
  BY <1>a DEF Guests!Load, Guests!Cancellation, Guests!Guests, Guests!AllGuests
<1>1. ASSUME NEW seen, Guests!EventsLoaded(seen)
      PROVE  GuestsWait'
  <2>1. Goes("events", {})
    BY <1>1, <1>b, GuestsCalls DEF Guests!EventsLoaded
  <2>2. s3' = FALSE /\ s4' = s4
    BY <1>1 DEF Guests!EventsLoaded
  <2> QED
    BY <2>1, <2>2 DEF Goes
\* The loader comes down with the first of several answers.
<1>2. ASSUME NEW which, NEW success \in BOOLEAN,
             Guests!GuestsLoaded(which, success) \/ Guests!AllGuestsLoaded(which, success)
      PROVE  GuestsWait'
  <2>1. PICK op \in {"guests", "all"} : Goes(op, {})
    BY <1>2, <1>b, GuestsCalls DEF Guests!GuestsLoaded, Guests!AllGuestsLoaded
  <2>2. s3' = s3 /\ s4' = FALSE
    BY <1>2 DEF Guests!GuestsLoaded, Guests!AllGuestsLoaded
  <2> QED
    BY <2>1, <2>2 DEF Goes
<1>3. CASE Guests!CancellationFailed
  <2>1. Goes("cancel", {})
    BY <1>3, <1>b, GuestsCalls DEF Guests!CancellationFailed
  <2>2. s3' = s3 /\ s4' = s4
    BY <1>3 DEF Guests!CancellationFailed
  <2> QED
    BY <2>1, <2>2 DEF Goes
\* Whatever is viewed is asked for again, or nothing is.
<1>4. CASE Guests!Cancelled
  <2> DEFINE es == Guests!FilterList(s5)
             next == IF s7 THEN (IF es = {} THEN {} ELSE {Guests!AllGuests(es)})
                     ELSE IF s6 # None THEN {Guests!Guests(s6)} ELSE {}
  <2>1. Goes("cancel", next)
    BY <1>4, <1>b, GuestsCalls DEF Guests!Cancelled
  <2>2. s3' = s3 /\ s4' = (s4 \/ next # {})
    BY <1>4 DEF Guests!Cancelled
  <2>3. \A c \in next : c.op \in {"guests", "all"}
    BY <1>b
  <2> HIDE DEF next
  <2>4. next # {} => "guests" \in Ops' \/ "all" \in Ops'
    BY <2>1, <2>3 DEF Goes
  <2> QED
    BY <2>1, <2>2, <2>4 DEF Goes
<1>5. ASSUME NEW e, Guests!SelectEvent(e)
      PROVE  GuestsWait'
  <2>1. Adds(Guests!Guests(e))
    BY <1>5, GuestsCalls DEF Guests!SelectEvent, Guests!LoadGuests
  <2>2. s3' = s3 /\ s4' = TRUE
    BY <1>5 DEF Guests!SelectEvent, Guests!LoadGuests
  <2> QED
    BY <1>b, <2>1, <2>2 DEF Adds
<1>6. CASE Guests!ViewAllGuests
  <2>1. s3' = s3
    BY <1>6 DEF Guests!ViewAllGuests
  <2>2. \/ s1' = s1 /\ s4' = s4
        \/ \E es : Adds(Guests!AllGuests(es)) /\ s4' = TRUE
    BY <1>6, GuestsCalls DEF Guests!ViewAllGuests, Guests!LoadAllGuests
  <2>3. CASE s1' = s1 /\ s4' = s4
    BY <2>1, <2>3 DEF Ops
  <2>4. ASSUME NEW es, Adds(Guests!AllGuests(es)), s4' = TRUE
        PROVE  GuestsWait'
    BY <1>b, <2>1, <2>4 DEF Adds
  <2> QED
    BY <2>2, <2>3, <2>4
<1>7. CASE Guests!ConfirmCancel
  <2>1. Adds(Guests!Cancellation)
    BY <1>7, GuestsCalls DEF Guests!ConfirmCancel
  <2>2. s3' = s3 /\ s4' = s4
    BY <1>7 DEF Guests!ConfirmCancel
  <2> QED
    BY <2>1, <2>2 DEF Adds
<1>8. CASE UNCHANGED <<s1, s3, s4>>
  BY <1>8 DEF Ops
<1>9. ASSUME \/ \E e \in Events : Guests!CancelReservation(e)
             \/ Guests!GoBack \/ Guests!CloseConfirmation
             \/ \E c \in Clients \cup {None} : Guests!SetClientFilter(c)
             \/ UNCHANGED Guests!vars
      PROVE  UNCHANGED <<s1, s3, s4>>
  BY <1>9 DEF Guests!CancelReservation, Guests!GoBack, Guests!CloseConfirmation,
              Guests!SetClientFilter, Guests!vars
<1> QED
  BY <1>1, <1>2, <1>3, <1>4, <1>5, <1>6, <1>7, <1>8, <1>9 DEF Guests!Next

-----------------------------------------------------------------------------
(* TicketPage: s3 is isLoading, s5 isDownloading, s6 job.                   *)

TicketWaits ==
  /\ IsABag(s1)
  /\ s3 \in BOOLEAN /\ s5 \in BOOLEAN
  /\ s3 => "load" \in Ops
  /\ s5 => s6 # None

LEMMA TicketStep ==
  ASSUME TicketWaits, Ticket!Next \/ UNCHANGED Ticket!vars
  PROVE  TicketWaits'
<1> USE DEF TicketWaits, Ticket!download
<1>a. Ticket!Load.op = "load" /\ Ticket!Cancellation.op = "cancel"
  BY DEF Ticket!Call, Ticket!Load, Ticket!Cancellation
<1>1. ASSUME NEW design, Ticket!Loaded(design)
      PROVE  TicketWaits'
  <2>1. Goes("load", {})
    BY <1>1, <1>a, TicketCalls DEF Ticket!Loaded
  <2> QED
    BY <1>1, <2>1 DEF Ticket!Loaded, Goes
<1>2. CASE Ticket!Cancelled \/ Ticket!CancellationFailed
  <2>1. Goes("cancel", {})
    BY <1>2, <1>a, TicketCalls DEF Ticket!Cancelled, Ticket!CancellationFailed
  <2>2. UNCHANGED <<s3, s5, s6>>
    BY <1>2 DEF Ticket!Cancelled, Ticket!CancellationFailed
  <2> QED
    BY <2>1, <2>2 DEF Goes
<1>3. CASE Ticket!ConfirmCancelTicket
  <2>1. Adds(Ticket!Cancellation)
    BY <1>3, TicketCalls DEF Ticket!ConfirmCancelTicket
  <2> QED
    BY <1>3, <2>1 DEF Ticket!ConfirmCancelTicket, Adds
\* Every step towards the PDF has a next one, and the last one ends the download.
<1>4. CASE Ticket!DownloadPdf \/ Ticket!JobGoesOn \/ Ticket!JobEnds
  <2>1. s1' = s1 /\ s3' = s3
    BY <1>4 DEF Ticket!DownloadPdf, Ticket!JobGoesOn, Ticket!JobEnds
  <2>2. s5' \in BOOLEAN /\ (s5' => s6' # None)
    BY <1>4, WebClientConstants DEF Ticket!DownloadPdf, Ticket!JobGoesOn, Ticket!JobEnds
  <2> QED
    BY <2>1, <2>2 DEF Ops
<1>5. CASE UNCHANGED <<s1, s3, s5, s6>>
  BY <1>5 DEF Ops
<1>6. ASSUME \/ Ticket!CancelTicket \/ Ticket!CloseConfirmation \/ Ticket!GoBack
             \/ UNCHANGED Ticket!vars
      PROVE  UNCHANGED <<s1, s3, s5, s6>>
  BY <1>6 DEF Ticket!CancelTicket, Ticket!CloseConfirmation, Ticket!GoBack, Ticket!vars
<1> QED
  BY <1>1, <1>2, <1>3, <1>4, <1>5, <1>6 DEF Ticket!Next

-----------------------------------------------------------------------------
(* TemplatesPage: s3 is event, s6 current, s7 selected, s8 saving, s9 wizard. *)

\* What is loaded becomes what is picked, so it has to be of one theme as well.
TemplatesInv ==
  /\ IsABag(s1)
  /\ s8 \in BOOLEAN
  /\ s8 => "choice" \in Ops
  /\ s9 = "saving" => "create" \in Ops
  /\ \A pair \in {s3, s6, s7} : pair.single = pair.couple
  /\ \A c \in DOMAIN s1 : c.op \in {"choice", "event"} => c.pair.single = c.pair.couple

\* An answer sends no pair.
LEMMA PairsOfAnswers ==
  ASSUME TemplatesInv, NEW op, NEW next, Goes(op, next),
         \A c \in next : c.op \notin {"choice", "event"}
  PROVE  \A c \in DOMAIN s1' : c.op \in {"choice", "event"} => c.pair.single = c.pair.couple
BY DEF TemplatesInv, Goes

LEMMA TemplatesStep ==
  ASSUME TemplatesInv, Templates!Next \/ UNCHANGED Templates!vars
  PROVE  TemplatesInv'
<1> USE DEF TemplatesInv, Templates!pairs, Templates!server
<1>a. \A t : Templates!Both(t).single = Templates!Both(t).couple
  BY DEF Templates!Both
<1>b. /\ Templates!Creation.op = "create"
      /\ \A x : /\ Templates!List(x).op = "list" /\ Templates!Deletion(x).op = "delete"
                /\ Templates!Choice(x).op = "choice" /\ Templates!Choice(x).pair = x
  BY DEF Templates!Creation, Templates!List, Templates!Deletion, Templates!Choice,
         Templates!Call
<1>1. ASSUME NEW call, Templates!EventLoaded(call) \/ Templates!EventFailed(call)
      PROVE  TemplatesInv'
  <2>1. call.op = "event" /\ call \in DOMAIN s1 /\ Goes("event", {})
    BY <1>1, TemplatesCalls DEF Templates!EventLoaded, Templates!EventFailed
  <2>2. UNCHANGED <<s3, s8, s9>>
        /\ \E pair : s6' = pair /\ s7' = pair /\ pair.single = pair.couple
    BY <1>1, <1>a, <2>1 DEF Templates!EventLoaded, Templates!EventFailed
  <2>3. \A c \in DOMAIN s1' : c.op \in {"choice", "event"} => c.pair.single = c.pair.couple
    BY <2>1, PairsOfAnswers
  <2> QED
    BY <2>1, <2>2, <2>3 DEF Goes
<1>2. ASSUME NEW call, NEW success, Templates!Listed(call, success)
      PROVE  TemplatesInv'
  <2>1. Goes("list", {})
    BY <1>2, TemplatesCalls DEF Templates!Listed
  <2>2. \A c \in DOMAIN s1' : c.op \in {"choice", "event"} => c.pair.single = c.pair.couple
    BY <2>1, PairsOfAnswers
  <2>3. UNCHANGED <<s3, s6, s7, s8, s9>>
    BY <1>2 DEF Templates!Listed
  <2> QED
    BY <2>1, <2>2, <2>3 DEF Goes
<1>3. ASSUME NEW call, Templates!ComboChosen(call)
      PROVE  TemplatesInv'
  <2>1. call.op = "choice" /\ call \in DOMAIN s1 /\ Goes("choice", {})
    BY <1>3, TemplatesCalls DEF Templates!ComboChosen
  <2>2. \A c \in DOMAIN s1' : c.op \in {"choice", "event"} => c.pair.single = c.pair.couple
    BY <2>1, PairsOfAnswers
  <2>3. s3' = call.pair /\ s6' = call.pair /\ s7' = call.pair /\ s8' = FALSE /\ s9' = s9
    BY <1>3 DEF Templates!ComboChosen
  <2>4. call.pair.single = call.pair.couple
    BY <2>1
  <2> QED
    BY <2>1, <2>2, <2>3, <2>4 DEF Goes
<1>4. ASSUME NEW call, Templates!ChoiceFailed(call)
      PROVE  TemplatesInv'
  <2>1. Goes("choice", {})
    BY <1>4, TemplatesCalls DEF Templates!ChoiceFailed
  <2>2. \A c \in DOMAIN s1' : c.op \in {"choice", "event"} => c.pair.single = c.pair.couple
    BY <2>1, PairsOfAnswers
  <2>3. UNCHANGED <<s3, s6, s7, s9>> /\ s8' = FALSE
    BY <1>4 DEF Templates!ChoiceFailed
  <2> QED
    BY <2>1, <2>2, <2>3 DEF Goes
<1>5. ASSUME NEW call, NEW t, Templates!ThemeDeleted(call, t)
      PROVE  TemplatesInv'
  <2> DEFINE next == IF call.id = {t} THEN {Templates!List(s2 \ {t})}
                     ELSE {Templates!Deletion(call.id \ {t})}
  <2>1. Goes("delete", next)
    BY <1>5, TemplatesCalls DEF Templates!ThemeDeleted
  <2>2. \A c \in next : c.op \notin {"choice", "event"}
    BY <1>b
  <2>3. \A c \in DOMAIN s1' : c.op \in {"choice", "event"} => c.pair.single = c.pair.couple
    BY <2>1, <2>2, PairsOfAnswers
  <2>4. UNCHANGED <<s3, s6, s7, s8, s9>>
    BY <1>5 DEF Templates!ThemeDeleted
  <2> QED
    BY <2>1, <2>3, <2>4 DEF Goes
<1>6. ASSUME NEW call, Templates!DeletionFailed(call)
      PROVE  TemplatesInv'
  <2>1. Goes("delete", {})
    BY <1>6, TemplatesCalls DEF Templates!DeletionFailed
  <2>2. \A c \in DOMAIN s1' : c.op \in {"choice", "event"} => c.pair.single = c.pair.couple
    BY <2>1, PairsOfAnswers
  <2>3. UNCHANGED <<s3, s6, s7, s8, s9>>
    BY <1>6 DEF Templates!DeletionFailed
  <2> QED
    BY <2>1, <2>2, <2>3 DEF Goes
<1>7. ASSUME NEW t, Templates!ThemeCreated(t)
      PROVE  TemplatesInv'
  <2> DEFINE next == IF s9 = "saving" THEN {Templates!List(s2 \cup {t})} ELSE {}
  <2>1. Goes("create", next)
    BY <1>7, <1>b, TemplatesCalls DEF Templates!ThemeCreated
  <2>2. \A c \in next : c.op \notin {"choice", "event"}
    BY <1>b
  <2>3. \A c \in DOMAIN s1' : c.op \in {"choice", "event"} => c.pair.single = c.pair.couple
    BY <2>1, <2>2, PairsOfAnswers
  <2>4. UNCHANGED <<s3, s6, s7, s8>> /\ s9' # "saving"
    BY <1>7 DEF Templates!ThemeCreated
  <2> QED
    BY <2>1, <2>3, <2>4 DEF Goes
<1>8. CASE Templates!CreationFailed
  <2>1. Goes("create", {})
    BY <1>8, <1>b, TemplatesCalls DEF Templates!CreationFailed
  <2>2. \A c \in DOMAIN s1' : c.op \in {"choice", "event"} => c.pair.single = c.pair.couple
    BY <2>1, PairsOfAnswers
  <2>3. UNCHANGED <<s3, s6, s7, s8>> /\ s9' # "saving"
    BY <1>8 DEF Templates!CreationFailed
  <2> QED
    BY <2>1, <2>2, <2>3 DEF Goes
\* What is sent is what is picked.
<1>9. CASE Templates!ChooseCombo
  <2>1. Adds(Templates!Choice(s7))
    BY <1>9, TemplatesCalls DEF Templates!ChooseCombo
  <2>2. UNCHANGED <<s3, s6, s7, s9>> /\ s8' = TRUE
    BY <1>9 DEF Templates!ChooseCombo
  <2>3. \A c \in DOMAIN s1' : c.op \in {"choice", "event"} => c.pair.single = c.pair.couple
    BY <1>b, <2>1 DEF Adds
  <2> QED
    BY <1>b, <2>1, <2>2, <2>3 DEF Adds
<1>10. CASE Templates!SubmitWizard
  <2>1. Adds(Templates!Creation)
    BY <1>10, TemplatesCalls DEF Templates!SubmitWizard
  <2>2. UNCHANGED <<s3, s6, s7, s8>>
    BY <1>10 DEF Templates!SubmitWizard
  <2>3. \A c \in DOMAIN s1' : c.op \in {"choice", "event"} => c.pair.single = c.pair.couple
    BY <1>b, <2>1 DEF Adds
  <2> QED
    BY <1>b, <2>1, <2>2, <2>3 DEF Adds
<1>11. ASSUME NEW ids, Templates!Delete(ids)
       PROVE  TemplatesInv'
  <2>1. Adds(Templates!Deletion(ids))
    BY <1>11, TemplatesCalls DEF Templates!Delete
  <2>2. UNCHANGED <<s3, s6, s7, s8, s9>>
    BY <1>11 DEF Templates!Delete
  <2>3. \A c \in DOMAIN s1' : c.op \in {"choice", "event"} => c.pair.single = c.pair.couple
    BY <1>b, <2>1 DEF Adds
  <2> QED
    BY <2>1, <2>2, <2>3 DEF Adds
<1>12. ASSUME \/ \E t : Templates!SelectTheme(t)
              \/ \E type : Templates!Pick(type)
       PROVE  UNCHANGED <<s1, s3, s6, s8, s9>> /\ s7'.single = s7'.couple
  BY <1>12, <1>a DEF Templates!SelectTheme, Templates!Pick
<1>13. CASE UNCHANGED <<s1, s3, s6, s8, s9>> /\ s7'.single = s7'.couple
  BY <1>13 DEF Ops
<1>14. ASSUME \/ Templates!BackToThemes \/ Templates!OpenWizard \/ Templates!CloseWizard
              \/ UNCHANGED Templates!vars
       PROVE  UNCHANGED <<s1, s3, s6, s7, s8>> /\ (s9' = s9 \/ s9' # "saving")
  BY <1>14 DEF Templates!BackToThemes, Templates!OpenWizard, Templates!CloseWizard,
               Templates!vars
<1>15. CASE UNCHANGED <<s1, s3, s6, s7, s8>> /\ (s9' = s9 \/ s9' # "saving")
  BY <1>15 DEF Ops
<1> QED
  BY <1>1, <1>2, <1>3, <1>4, <1>5, <1>6, <1>7, <1>8, <1>9, <1>10, <1>11, <1>12, <1>13,
     <1>14, <1>15
  DEF Templates!Next

-----------------------------------------------------------------------------
(* BillingPage: s1 is here, s2 calls, s3 isLoading, s6 checkoutLoading,     *)
(* s8 checkouts, s10 intervals.                                            *)

BillingWaits ==
  /\ s1 \in BOOLEAN /\ s3 \in BOOLEAN /\ s6 \in BOOLEAN
  /\ Billing!SpinnerEnds

LEMMA BillingStep ==
  ASSUME BillingWaits, Billing!Next \/ UNCHANGED Billing!vars
  PROVE  BillingWaits'
<1> USE DEF BillingWaits, Billing!SpinnerEnds, Billing!loading,
            Billing!dialog, Billing!paying
<1>1. CASE Billing!Reconciled \/ Billing!ManageCancellation
  BY <1>1 DEF Billing!Reconciled, Billing!ManageCancellation
<1>2. ASSUME NEW success \in BOOLEAN, Billing!Loaded(success)
      PROVE  BillingWaits'
  BY <1>2 DEF Billing!Loaded
<1>3. ASSUME NEW success \in BOOLEAN, Billing!RenewalAnswered(success)
      PROVE  BillingWaits'
  BY <1>3 DEF Billing!RenewalAnswered
<1>4. ASSUME NEW plan, Billing!OpenCheckout(plan)
      PROVE  BillingWaits'
  BY <1>4 DEF Billing!OpenCheckout
\* The handle may name another interval than the dialog's, but the flag goes too.
<1>5. CASE Billing!CloseCheckout
  BY <1>5 DEF Billing!CloseCheckout
<1>6. CASE Billing!SubmitCheckout
  BY <1>6 DEF Billing!SubmitCheckout
<1>7. ASSUME NEW p, Billing!CheckoutAnswered(p)
      PROVE  BillingWaits'
  BY <1>7 DEF Billing!CheckoutAnswered
<1>8. ASSUME NEW p, Billing!CheckoutFailed(p)
      PROVE  BillingWaits'
  BY <1>8 DEF Billing!CheckoutFailed
<1>9. ASSUME NEW p, Billing!Poll(p) \/ Billing!PollUndecided(p)
      PROVE  BillingWaits'
  BY <1>9 DEF Billing!Poll, Billing!PollUndecided
<1>10. ASSUME NEW p, Billing!PollDecided(p)
       PROVE  BillingWaits'
  BY <1>10 DEF Billing!PollDecided
<1>11. CASE Billing!Leave
  BY <1>11 DEF Billing!Leave
<1>12. CASE UNCHANGED Billing!vars
  BY <1>12 DEF Billing!vars
<1> QED
  BY <1>1, <1>2, <1>3, <1>4, <1>5, <1>6, <1>7, <1>8, <1>9, <1>10, <1>11, <1>12
  DEF Billing!Next

-----------------------------------------------------------------------------
(* ScannerPage: s1 is here, s2 camera, s3 stream, s4 frame, s5 isSubmitting, *)
(* s6 scanResult, s7 timer, s9 replaying, s10 leftWith.                     *)

ScannerTypes ==
  s1 \in BOOLEAN /\ s3 \in BOOLEAN /\ s4 \in BOOLEAN /\ s5 \in BOOLEAN /\ s7 \in BOOLEAN
  /\ s9 \in BOOLEAN

\* Of a page that was left with nothing under way, nothing can start again.
AtRest ==
  /\ ~ s1 /\ s10 = {} => ~ s3 /\ ~ s4 /\ ~ s5 /\ ~ s7 /\ ~ s9
  /\ ~ s1 /\ "camera" \notin s10 => ~ s3 /\ s2 \notin {"asked", "starting"}

ScannerInv == ScannerTypes /\ Scanner!NeverStuck /\ AtRest

LEMMA ScannerStep ==
  ASSUME ScannerInv, Scanner!Next \/ UNCHANGED Scanner!vars
  PROVE  ScannerInv'
<1> USE DEF ScannerInv, ScannerTypes, Scanner!NeverStuck, AtRest, Scanner!still,
            Scanner!input, Scanner!cameraSupported
\* Before the camera runs, openCamera is under way.
<1>a. s2 \in {"asked", "starting"} => s1 \/ "camera" \in s10
  OBVIOUS
<1>1. CASE Scanner!CameraGranted \/ Scanner!CameraRefused \/ Scanner!CameraPlays
  <2>1. UNCHANGED <<s1, s5, s6, s7, s9, s10>> /\ s2 \in {"asked", "starting"}
    BY <1>1 DEF Scanner!CameraGranted, Scanner!CameraRefused, Scanner!CameraPlays
  <2>2. s3' \in BOOLEAN /\ s4' \in BOOLEAN /\ (s2' = "running" => s4')
    BY <1>1 DEF Scanner!CameraGranted, Scanner!CameraRefused, Scanner!CameraPlays
  <2>3. s1 \/ (s10 # {} /\ "camera" \in s10)
    BY <1>a, <2>1
  <2> QED
    BY <2>1, <2>2, <2>3
<1>2. CASE Scanner!FrameIgnored
  BY <1>2 DEF Scanner!FrameIgnored
<1>3. CASE Scanner!CodeFound
  BY <1>3 DEF Scanner!CodeFound
<1>4. CASE Scanner!TypeToken \/ Scanner!SubmitManualToken
  BY <1>4 DEF Scanner!TypeToken, Scanner!SubmitManualToken
<1>5. ASSUME NEW answer \in {"success", "error"}, Scanner!ScanAnswered(answer)
      PROVE  ScannerInv'
  BY <1>5 DEF Scanner!ScanAnswered
<1>6. CASE Scanner!ResultExpires
  BY <1>6 DEF Scanner!ResultExpires
<1>7. CASE Scanner!ReplayEnds
  <2>1. /\ UNCHANGED <<s1, s2, s3, s5, s6, s7, s10>>
        /\ s9 /\ s9' = FALSE /\ (s4' = s4 \/ s4' = TRUE)
    BY <1>7 DEF Scanner!ReplayEnds
  <2>2. s1 \/ s10 # {}
    BY <2>1
  <2>3. CASE s4' = s4
    BY <2>1, <2>2, <2>3
  <2>4. CASE s4' = TRUE
    BY <2>1, <2>2, <2>4
  <2> QED
    BY <2>1, <2>3, <2>4
<1>8. CASE Scanner!Leave
  <2>1. /\ s1' = FALSE /\ s10' = Scanner!UnderWay
        /\ s3' = FALSE /\ s4' = FALSE /\ s7' = FALSE
        /\ s2' = s2 /\ s5' = s5 /\ s9' = s9
    BY <1>8 DEF Scanner!Leave, Scanner!StopScanner
  <2>2. /\ s5 => "scan" \in Scanner!UnderWay
        /\ s2 \in {"asked", "starting"} => "camera" \in Scanner!UnderWay
        /\ s9 => "replay" \in Scanner!UnderWay
    BY DEF Scanner!UnderWay
  <2> QED
    BY <2>1, <2>2
<1>9. CASE UNCHANGED Scanner!vars
  BY <1>9 DEF Scanner!vars
<1> QED
  BY <1>1, <1>2, <1>3, <1>4, <1>5, <1>6, <1>7, <1>8, <1>9 DEF Scanner!Next

-----------------------------------------------------------------------------
(* SeatingPage: s4 is occupancy, s7 selectedTable, s8 selectedChair.        *)

SeatingInv == s4 \in Seating!Occupancies \cup {None} /\ Seating!SidebarIsCurrent

\* s2 is loads, s3 isLoading.
SeatingLoads == s2 \in Nat /\ Seating!SpinnerEnds

\* An object of the map is not None.
LEMMA ObjectsExist ==
  ASSUME NEW id \in Tables \cup Chairs, NEW o \in Seating!Occupancies
  PROVE  [id |-> id, in |-> o] # None
BY WebClientConstants

\* A reload that brings the chair brings its table.
LEMMA ReloadKeepsBoth ==
  ASSUME SeatingInv, NEW o \in Seating!Occupancies, Seating!LoadAnswered(o)
  PROVE  SeatingInv'
<1>1. /\ s4' = o
      /\ s7' = IF s7 # None /\ s7.id \in o.tables THEN [id |-> s7.id, in |-> o] ELSE None
      /\ s8' = IF s8 # None /\ s8.id \in o.chairs THEN [id |-> s8.id, in |-> o] ELSE None
  BY DEF Seating!LoadAnswered, Seating!Refresh
<1>2. CASE s8 # None /\ s8.id \in o.chairs
  <2>1. s7 # None /\ s7.id = TableOf[s8.id]
    BY <1>2 DEF SeatingInv, Seating!SidebarIsCurrent
  <2>2. s7.id \in o.tables /\ s7.id \in Tables
    BY <1>2, <2>1 DEF Seating!Occupancies
  <2>3. s7' = [id |-> s7.id, in |-> o] /\ s7' # None
    BY <1>1, <2>1, <2>2, ObjectsExist
  <2> QED
    BY <1>1, <1>2, <2>1, <2>2, <2>3 DEF SeatingInv, Seating!SidebarIsCurrent
<1>3. CASE ~ (s8 # None /\ s8.id \in o.chairs)
  BY <1>1, <1>3 DEF SeatingInv, Seating!SidebarIsCurrent
<1> QED
  BY <1>2, <1>3

LEMMA SeatingStep ==
  ASSUME SeatingInv, Seating!Next \/ UNCHANGED Seating!vars
  PROVE  SeatingInv'
<1>1. ASSUME NEW o \in Seating!Occupancies, Seating!LoadAnswered(o)
      PROVE  SeatingInv'
  BY <1>1, ReloadKeepsBoth
<1>2. ASSUME NEW c \in Chairs, Seating!SelectChair(c)
      PROVE  SeatingInv'
  <2>1. /\ s4' = s4 /\ s4 \in Seating!Occupancies
        /\ TableOf[c] \in s4.tables /\ c \in s4.chairs
        /\ s7' = [id |-> TableOf[c], in |-> s4] /\ s8' = [id |-> c, in |-> s4]
    BY <1>2 DEF Seating!SelectChair, Seating!Shown, Seating!Object, Seating!map, SeatingInv
  <2>2. TableOf[c] \in Tables
    BY <2>1 DEF Seating!Occupancies
  <2>3. s7' # None
    BY <2>1, <2>2, ObjectsExist
  <2> QED
    BY <2>1, <2>3 DEF SeatingInv, Seating!SidebarIsCurrent
<1>3. ASSUME NEW t \in Tables, Seating!SelectTable(t)
      PROVE  SeatingInv'
  BY <1>3 DEF Seating!SelectTable, Seating!Shown, Seating!Object, Seating!map, SeatingInv,
              Seating!SidebarIsCurrent
<1>4. CASE UNCHANGED s4 /\ s7' = None /\ s8' = None
  BY <1>4 DEF SeatingInv, Seating!SidebarIsCurrent
<1>5. ASSUME \/ Seating!Closed \/ Seating!SeatAssigned
             \/ \E r \in Rooms : Seating!ChangeSelectedRoom(r)
      PROVE  UNCHANGED s4 /\ s7' = None /\ s8' = None
  BY <1>5 DEF Seating!Closed, Seating!SeatAssigned, Seating!ChangeSelectedRoom,
              Seating!CloseSidebar, Seating!map
<1>6. CASE UNCHANGED <<s4, s7, s8>>
  BY <1>6 DEF SeatingInv, Seating!SidebarIsCurrent
<1>7. ASSUME \/ Seating!LoadFailed \/ Seating!ToggleType
             \/ Seating!SaveTableName \/ Seating!AssignSeat
             \/ Seating!RequestCancel \/ Seating!CloseCancel \/ Seating!ConfirmCancel
             \/ \E call \in {"save", "assign", "cancel"} :
                  Seating!ChangeAnswered(call) \/ Seating!ChangeFailed(call)
             \/ Seating!Leave
             \/ UNCHANGED Seating!vars
      PROVE  UNCHANGED <<s4, s7, s8>>
  BY <1>7 DEF Seating!LoadFailed, Seating!ToggleType, Seating!SaveTableName,
              Seating!AssignSeat, Seating!RequestCancel, Seating!CloseCancel,
              Seating!ConfirmCancel, Seating!ChangeAnswered, Seating!ChangeFailed,
              Seating!Leave, Seating!map, Seating!sidebar, Seating!vars
<1> QED
  BY <1>1, <1>2, <1>3, <1>4, <1>5, <1>6, <1>7 DEF Seating!Next

LEMMA SeatingLoadsStep ==
  ASSUME SeatingLoads, Seating!Next \/ UNCHANGED Seating!vars
  PROVE  SeatingLoads'
<1> USE DEF SeatingLoads, Seating!SpinnerEnds
<1>1. ASSUME \/ \E o \in Seating!Occupancies : Seating!LoadAnswered(o)
             \/ Seating!LoadFailed
      PROVE  SeatingLoads'
  BY <1>1 DEF Seating!LoadAnswered, Seating!LoadFailed
<1>2. ASSUME NEW call, Seating!ChangeAnswered(call)
      PROVE  SeatingLoads'
  BY <1>2 DEF Seating!ChangeAnswered, Seating!LoadData
<1>3. ASSUME \/ Seating!Closed \/ Seating!SeatAssigned \/ Seating!ToggleType
             \/ \E c \in Chairs : Seating!SelectChair(c)
             \/ \E t \in Tables : Seating!SelectTable(t)
             \/ \E r \in Rooms : Seating!ChangeSelectedRoom(r)
             \/ Seating!SaveTableName \/ Seating!AssignSeat
             \/ Seating!RequestCancel \/ Seating!CloseCancel \/ Seating!ConfirmCancel
             \/ \E call \in {"save", "assign", "cancel"} : Seating!ChangeFailed(call)
             \/ Seating!Leave
             \/ UNCHANGED Seating!vars
      PROVE  UNCHANGED <<s2, s3>>
  BY <1>3 DEF Seating!Closed, Seating!SeatAssigned, Seating!ToggleType,
              Seating!SelectChair, Seating!SelectTable, Seating!ChangeSelectedRoom,
              Seating!SaveTableName, Seating!AssignSeat, Seating!RequestCancel,
              Seating!CloseCancel, Seating!ConfirmCancel, Seating!ChangeFailed,
              Seating!Leave, Seating!vars
<1> QED
  BY <1>1, <1>2, <1>3 DEF Seating!Next

-----------------------------------------------------------------------------
(* EventEditor: s2 is loading, s6 selectedRoomIds, s7 activeRoomId, s8       *)
(* tablesByRoom.  A room is in the list once, or taking it out would leave   *)
(* it in; and nothing is laid out before the event has been loaded, which    *)
(* replaces the list of its rooms.                                           *)

RoomsOnce ==
  /\ s6 \in Seq(Rooms)
  /\ Editor!IsInjective(s6)
  /\ s7 \in Rooms \cup {None}

NothingYet ==
  s2 # "none" => s6 = <<>> /\ s7 = None /\ DOMAIN s8 = {}

EditorInv == RoomsOnce /\ NothingYet /\ Editor!LayoutFollowsRooms


\* Lists have no repetitions: taking an element out leaves all the
\* others and not that one.
LEMMA TakenOut ==
  ASSUME NEW S, NEW s \in Seq(S), Editor!IsInjective(s), NEW i \in 1 .. Len(s)
  PROVE  /\ Editor!RemoveAt(s, i) \in Seq(S)
         /\ Editor!IsInjective(Editor!RemoveAt(s, i))
         /\ \A x : Editor!Contains(Editor!RemoveAt(s, i), x)
                     <=> Editor!Contains(s, x) /\ x # s[i]
<1> DEFINE a == SubSeq(s, 1, i - 1)
           b == SubSeq(s, i + 1, Len(s))
           t == Editor!RemoveAt(s, i)
<1>1. Len(s) \in Nat /\ DOMAIN s = 1 .. Len(s) /\ \A k \in 1 .. Len(s) : s[k] \in S
  BY LenProperties, ElementOfSeq
<1>2. a \in Seq(S) /\ Len(a) = i - 1 /\ \A k \in 1 .. i - 1 : a[k] = s[k]
  <2>1. \A k \in 1 .. i - 1 : s[k] \in S
    BY <1>1
  <2>2. /\ a \in Seq(S)
        /\ Len(a) = IF 1 <= i - 1 THEN i - 1 - 1 + 1 ELSE 0
        /\ \A k \in 1 .. i - 1 - 1 + 1 : a[k] = s[1 + k - 1]
    BY <1>1, <2>1, SubSeqProperties
  <2> QED
    BY <1>1, <2>2
<1>3. b \in Seq(S) /\ Len(b) = Len(s) - i /\ \A k \in 1 .. Len(s) - i : b[k] = s[i + k]
  <2>1. \A k \in i + 1 .. Len(s) : s[k] \in S
    BY <1>1
  <2>2. /\ b \in Seq(S)
        /\ Len(b) = IF i + 1 <= Len(s) THEN Len(s) - (i + 1) + 1 ELSE 0
        /\ \A k \in 1 .. Len(s) - (i + 1) + 1 : b[k] = s[i + 1 + k - 1]
    BY <1>1, <2>1, SubSeqProperties
  <2>3. ASSUME NEW n \in Nat, NEW j \in 1 .. n
        PROVE  /\ n - (j + 1) + 1 = n - j
               /\ j + 1 <= n \/ n - j = 0
               /\ \A k \in 1 .. n - j :
                    k \in 1 .. n - (j + 1) + 1 /\ j + 1 + k - 1 = j + k
    OBVIOUS
  <2>4. /\ Len(s) - (i + 1) + 1 = Len(s) - i
        /\ i + 1 <= Len(s) \/ Len(s) - i = 0
        /\ \A k \in 1 .. Len(s) - i :
             k \in 1 .. Len(s) - (i + 1) + 1 /\ i + 1 + k - 1 = i + k
    BY <1>1, <2>3
  <2> HIDE DEF b
  <2>5. Len(b) = Len(s) - i
    BY <1>1, <2>2, <2>4
  <2>6. ASSUME NEW k \in 1 .. Len(s) - i
        PROVE  b[k] = s[i + k]
    <3>1. k \in 1 .. Len(s) - (i + 1) + 1 /\ i + 1 + k - 1 = i + k
      BY <2>4
    <3> QED
      BY <2>2, <3>1
  <2> QED
    BY <2>2, <2>5, <2>6
<1>4. /\ t \in Seq(S) /\ Len(t) = Len(s) - 1
      /\ \A k \in 1 .. Len(s) - 1 : t[k] = IF k < i THEN s[k] ELSE s[k + 1]
  <2>1. /\ a \o b \in Seq(S) /\ Len(a \o b) = Len(a) + Len(b)
        /\ \A k \in 1 .. Len(a) + Len(b) :
             (a \o b)[k] = IF k <= Len(a) THEN a[k] ELSE b[k - Len(a)]
    BY <1>2, <1>3, ConcatProperties
  <2>2. t = a \o b
    BY DEF Editor!RemoveAt
  <2> HIDE DEF a, b, t
  <2>3. Len(a) + Len(b) = Len(s) - 1
    BY <1>1, <1>2, <1>3
  <2>4. ASSUME NEW k \in 1 .. Len(s) - 1
        PROVE  t[k] = IF k < i THEN s[k] ELSE s[k + 1]
    <3>1. CASE k < i
      BY <1>1, <1>2, <2>1, <2>2, <2>3, <3>1
    <3>2. CASE ~ (k < i)
      <4>1. ~ (k <= Len(a)) /\ k - Len(a) \in 1 .. Len(s) - i /\ i + (k - Len(a)) = k + 1
        BY <1>1, <1>2, <3>2
      <4> QED
        BY <1>3, <2>1, <2>2, <2>3, <3>2, <4>1
    <3> QED
      BY <3>1, <3>2
  <2> QED
    BY <2>1, <2>2, <2>3, <2>4
<1>5. DOMAIN t = 1 .. Len(s) - 1
  BY <1>4, LenProperties
<1> HIDE DEF t
<1>6. Editor!IsInjective(t)
  BY <1>1, <1>4, <1>5 DEF Editor!IsInjective
<1>7. ASSUME NEW x, Editor!Contains(t, x)
      PROVE  Editor!Contains(s, x) /\ x # s[i]
  <2>1. PICK k \in 1 .. Len(s) - 1 : t[k] = x
    BY <1>4, <1>7 DEF Editor!Contains
  <2>2. \E m \in 1 .. Len(s) : m # i /\ s[m] = x
    BY <1>1, <1>4, <2>1
  <2> QED
    BY <1>1, <2>2 DEF Editor!Contains, Editor!IsInjective
<1>8. ASSUME NEW x, Editor!Contains(s, x), x # s[i]
      PROVE  Editor!Contains(t, x)
  <2>1. PICK m \in 1 .. Len(s) : s[m] = x
    BY <1>8 DEF Editor!Contains
  <2>2. \E k \in 1 .. Len(s) - 1 : t[k] = x
    <3>1. CASE m < i
      BY <1>1, <1>4, <2>1, <3>1
    <3>2. CASE m > i
      <4>1. m - 1 \in 1 .. Len(s) - 1 /\ ~ (m - 1 < i) /\ m - 1 + 1 = m
        BY <1>1, <3>2
      <4> QED
        BY <1>4, <2>1, <4>1
    <3> QED
      BY <1>8, <2>1, <3>1, <3>2
  <2> QED
    BY <1>4, <2>2 DEF Editor!Contains
<1> QED
  BY <1>4, <1>6, <1>7, <1>8 DEF t

LEMMA PutAtTheEnd ==
  ASSUME NEW S, NEW s \in Seq(S), Editor!IsInjective(s),
         NEW r \in S, ~ Editor!Contains(s, r)
  PROVE  /\ Append(s, r) \in Seq(S)
         /\ Editor!IsInjective(Append(s, r))
         /\ \A x : Editor!Contains(Append(s, r), x) <=> Editor!Contains(s, x) \/ x = r
<1>1. /\ Append(s, r) \in Seq(S) /\ Len(Append(s, r)) = Len(s) + 1
      /\ \A k \in 1 .. Len(s) : Append(s, r)[k] = s[k]
      /\ Append(s, r)[Len(s) + 1] = r
  BY AppendProperties
<1>2. Len(s) \in Nat /\ DOMAIN s = 1 .. Len(s) /\ DOMAIN Append(s, r) = 1 .. Len(s) + 1
  BY <1>1, LenProperties
<1> QED
  BY <1>1, <1>2 DEF Editor!IsInjective, Editor!Contains

LEMMA FirstIsIn ==
  ASSUME NEW S, NEW s \in Seq(S), s # <<>>
  PROVE  Head(s) \in S /\ Editor!Contains(s, Head(s))
<1>1. Head(s) = s[1] /\ 1 \in 1 .. Len(s)
  BY EmptySeq, LenProperties
<1>2. Head(s) \in S
  BY HeadTailProperties
<1> QED
  BY <1>1, <1>2 DEF Editor!Contains

LEMMA LoadedLists ==
  ASSUME NEW s \in Editor!RoomLists
  PROVE  s \in Seq(Rooms) /\ Editor!IsInjective(s)
<1>1. \A n, m : m \in 0 .. n => m \in Nat
  OBVIOUS
<1>2. \A m \in 0 .. Editor!Cardinality(Rooms) : [1 .. m -> Rooms] \subseteq Seq(Rooms)
  BY <1>1, SeqDef
<1> QED
  BY <1>2 DEF Editor!RoomLists, Editor!SeqOf


LEMMA EditorInit ==
  ASSUME Editor!Init PROVE EditorInv
<1>1. s6 \in Seq(Rooms) /\ Editor!IsInjective(s6)
  BY EmptySeq DEF Editor!Init, Editor!IsInjective
<1> QED
  BY <1>1 DEF Editor!Init, Editor!NoTables, EditorInv, RoomsOnce, NothingYet,
              Editor!LayoutFollowsRooms

\* Most actions leave the rooms and the layout alone.
LEMMA LayoutUntouched ==
  ASSUME EditorInv, UNCHANGED <<s6, s7, s8>>,
         s2' # "none" => s2 # "none"
  PROVE  EditorInv'
BY DEF EditorInv, RoomsOnce, NothingYet, Editor!LayoutFollowsRooms

\* An event that is loaded finds nothing laid out.
LEMMA EventLoadedInv ==
  ASSUME EditorInv, NEW draft \in BOOLEAN,
         NEW rooms \in Editor!RoomLists, NEW list \in Editor!SessionLists,
         Editor!EventLoaded(draft, rooms, list)
  PROVE  EditorInv'
<1>1. rooms \in Seq(Rooms) /\ Editor!IsInjective(rooms)
  BY LoadedLists
<1>2. s7 = None /\ DOMAIN s8 = {}
  BY DEF EditorInv, NothingYet, Editor!EventLoaded
<1>3. CASE rooms = <<>>
  BY <1>1, <1>2, <1>3
  DEF EditorInv, Editor!EventLoaded, RoomsOnce, NothingYet, Editor!LayoutFollowsRooms
<1>4. CASE rooms # <<>>
  <2>1. Head(rooms) \in Rooms /\ Editor!Contains(rooms, Head(rooms))
    BY <1>1, <1>4, FirstIsIn
  <2>2. Head(rooms) # None
    BY <2>1, WebClientConstants DEF Editor!EditorConstants
  <2> QED
    BY <1>1, <1>2, <1>4, <2>1, <2>2
    DEF EditorInv, Editor!EventLoaded, RoomsOnce, NothingYet, Editor!LayoutFollowsRooms
<1> QED
  BY <1>3, <1>4

\* What the list of rooms may become: r goes, or comes.
LEMMA ToggledList ==
  ASSUME EditorInv, NEW r \in Rooms, NEW next \in Editor!Toggled(r)
  PROVE  /\ next \in Seq(Rooms) /\ Editor!IsInjective(next)
         /\ \A x : x # r => (Editor!Contains(next, x) <=> Editor!Contains(s6, x))
<1>1. s6 \in Seq(Rooms) /\ Editor!IsInjective(s6)
  BY DEF EditorInv, RoomsOnce
<1>2. CASE Editor!Contains(s6, r)
  <2>1. PICK i \in DOMAIN s6 :
          s6[i] = r /\ next = Editor!RemoveAt(s6, i)
    BY <1>2 DEF Editor!Toggled
  <2>2. i \in 1 .. Len(s6)
    BY <1>1, <2>1, LenProperties
  <2> QED
    BY <1>1, <2>1, <2>2, TakenOut
<1>3. CASE ~ Editor!Contains(s6, r)
  <2>1. next = Append(s6, r)
    BY <1>3 DEF Editor!Toggled
  <2> QED
    BY <1>1, <1>3, <2>1, PutAtTheEnd
<1> QED
  BY <1>2, <1>3

\* The room that is edited stays if it still can; the tables of one that goes, go.
LEMMA ToggleRoomInv ==
  ASSUME EditorInv, NEW r \in Rooms, Editor!ToggleRoom(r)
  PROVE  EditorInv'
<1>1. PICK next \in Editor!Toggled(r) :
        /\ s2 = "none" /\ s2' = s2
        /\ s6' = next
        /\ s7' = IF next = <<>> THEN None
                           ELSE IF Editor!Contains(next, s7) THEN s7 ELSE Head(next)
        /\ s8' = IF Editor!Contains(next, r) THEN s8 ELSE Editor!Without(s8, r)
  BY DEF Editor!ToggleRoom, Editor!Editing
<1>2. /\ next \in Seq(Rooms) /\ Editor!IsInjective(next)
      /\ \A x : x # r => (Editor!Contains(next, x) <=> Editor!Contains(s6, x))
  BY ToggledList
<1>3. CASE next = <<>>
  <2>1. s7' = None
    BY <1>1, <1>3
  <2>2. \A x : ~ Editor!Contains(next, x)
    BY <1>3 DEF Editor!Contains
  <2>3. DOMAIN s8' = {}
    BY <1>1, <1>2, <2>2 DEF EditorInv, Editor!LayoutFollowsRooms, Editor!Without
  <2> QED
    BY <1>1, <1>2, <1>3, <2>1, <2>3
    DEF EditorInv, RoomsOnce, NothingYet, Editor!LayoutFollowsRooms
<1>4. CASE next # <<>>
  <2>1. Head(next) \in Rooms /\ Editor!Contains(next, Head(next))
    BY <1>2, <1>4, FirstIsIn
  <2>2. s7' \in Rooms /\ Editor!Contains(next, s7')
    <3>1. Editor!Contains(next, s7) => s7 \in Rooms
      BY <1>2, LenProperties, ElementOfSeq DEF Editor!Contains
    <3> QED
      BY <1>1, <1>4, <2>1, <3>1
  <2>3. s7' # None
    BY <2>2, WebClientConstants DEF Editor!EditorConstants
  <2>4. ASSUME NEW x \in DOMAIN s8'
        PROVE  Editor!Contains(next, x)
    <3>1. CASE Editor!Contains(next, r)
      BY <1>1, <1>2, <2>4, <3>1 DEF EditorInv, Editor!LayoutFollowsRooms
    <3>2. CASE ~ Editor!Contains(next, r)
      <4>1. x \in DOMAIN s8 /\ x # r
        BY <1>1, <2>4, <3>2 DEF Editor!Without
      <4> QED
        BY <1>2, <4>1 DEF EditorInv, Editor!LayoutFollowsRooms
    <3> QED
      BY <3>1, <3>2
  <2> QED
    BY <1>1, <1>2, <1>4, <2>2, <2>3, <2>4
    DEF EditorInv, RoomsOnce, NothingYet, Editor!LayoutFollowsRooms
<1> QED
  BY <1>3, <1>4

LEMMA SetActiveRoomInv ==
  ASSUME EditorInv, NEW r \in Rooms, Editor!SetActiveRoom(r)
  PROVE  EditorInv'
<1>1. /\ s2 = "none" /\ s2' = s2
      /\ Editor!Contains(s6, r) /\ s7' = r
      /\ s6' = s6 /\ s8' = s8
  BY DEF Editor!SetActiveRoom
<1>2. s6 # <<>>
  BY <1>1 DEF Editor!Contains
<1>3. r # None
  BY WebClientConstants DEF Editor!EditorConstants
<1> QED
  BY <1>1, <1>2, <1>3 DEF EditorInv, RoomsOnce, NothingYet, Editor!LayoutFollowsRooms

\* Tables are laid out in the active room only.
LEMMA TablesInv ==
  ASSUME EditorInv, NEW tables, Editor!UpdateCurrentTables(tables), s2 = "none",
         UNCHANGED <<s2, s6, s7>>
  PROVE  EditorInv'
<1>1. \A r \in DOMAIN s8' :
        r \in DOMAIN s8 \/ (r = s7 /\ s7 # None)
  BY DEF Editor!UpdateCurrentTables
<1> QED
  BY <1>1 DEF EditorInv, RoomsOnce, NothingYet, Editor!LayoutFollowsRooms

LEMMA EditorStep ==
  ASSUME EditorInv, Editor!Next \/ UNCHANGED Editor!vars
  PROVE  EditorInv'
<1>1. CASE Editor!RoomsLoaded \/ Editor!LoadFailed \/ Editor!FillIn
  BY <1>1, LayoutUntouched
  DEF Editor!RoomsLoaded, Editor!LoadFailed, Editor!FillIn, Editor!Editing, Editor!layout
<1>2. ASSUME NEW draft \in BOOLEAN, NEW rooms \in Editor!RoomLists,
             NEW list \in Editor!SessionLists,
             Editor!EventLoaded(draft, rooms, list)
      PROVE  EditorInv'
  BY <1>2, EventLoadedInv
<1>3. ASSUME NEW r \in Rooms, Editor!ToggleRoom(r)
      PROVE  EditorInv'
  BY <1>3, ToggleRoomInv
<1>4. ASSUME NEW r \in Rooms, Editor!SetActiveRoom(r)
      PROVE  EditorInv'
  BY <1>4, SetActiveRoomInv
<1>5. CASE Editor!ChooseCounts \/ Editor!SelectTable
  BY <1>5, LayoutUntouched DEF Editor!ChooseCounts, Editor!SelectTable
<1>6. CASE Editor!GenerateLayout
  BY <1>6, TablesInv DEF Editor!GenerateLayout, Editor!Editing
<1>7. CASE Editor!CanvasClick
  BY <1>7, TablesInv DEF Editor!CanvasClick, Editor!Editing
<1>8. CASE Editor!RemoveTable
  BY <1>8, TablesInv DEF Editor!RemoveTable, Editor!Editing
<1>9. ASSUME NEW n \in 1 .. MaxChairs, Editor!UpdateChairs(n)
      PROVE  EditorInv'
  BY <1>9, TablesInv DEF Editor!UpdateChairs, Editor!Editing
<1>10. CASE Editor!AddSession \/ Editor!RemoveSession \/ Editor!UpdateSession
  BY <1>10, LayoutUntouched
  DEF Editor!AddSession, Editor!RemoveSession, Editor!UpdateSession, Editor!EditSessions,
      Editor!layout
<1>11. CASE Editor!SaveSessions \/ Editor!SaveChanges \/ Editor!PublishEvent
  BY <1>11, LayoutUntouched
  DEF Editor!SaveSessions, Editor!SaveChanges, Editor!PublishEvent, Editor!Send,
      Editor!layout
<1>12. ASSUME NEW c \in s13,
              \/ Editor!SessionsSaved(c) \/ Editor!ChangesSaved(c)
              \/ Editor!Published(c) \/ Editor!CallFailed(c)
       PROVE  EditorInv'
  BY <1>12, LayoutUntouched
  DEF Editor!SessionsSaved, Editor!ChangesSaved, Editor!Published, Editor!CallFailed,
      Editor!layout
<1>13. CASE Editor!Leave
  <2>1. s6' \in Seq(Rooms) /\ Editor!IsInjective(s6')
    BY <1>13, EmptySeq DEF Editor!Leave, Editor!IsInjective
  <2>2. DOMAIN s8' = {} /\ s6' = <<>> /\ s7' = None
    BY <1>13 DEF Editor!Leave, Editor!NoTables
  <2> QED
    BY <2>1, <2>2 DEF EditorInv, RoomsOnce, NothingYet, Editor!LayoutFollowsRooms
<1>14. CASE UNCHANGED Editor!vars
  BY <1>14, LayoutUntouched DEF Editor!vars, Editor!layout
<1> QED
  BY <1>1, <1>2, <1>3, <1>4, <1>5, <1>6, <1>7, <1>8, <1>9, <1>10, <1>11, <1>12, <1>13, <1>14
  DEF Editor!Next

-----------------------------------------------------------------------------
(* All pages together.                                                     *)

PagesInv ==
  /\ open = "scanner" => ScannerInv
  /\ open = "billing" => BillingWaits
  /\ open = "seating" => SeatingInv /\ SeatingLoads
  /\ open = "editor" => EditorInv
  /\ open = "clients" => ClientsWait
  /\ open = "staff" => StaffWaits
  /\ open = "venues" => VenuesWait
  /\ open = "guests" => GuestsWait
  /\ open = "templates" => TemplatesInv
  /\ open = "ticket" => TicketWaits

LEMMA OnePageInit ==
  ASSUME PagesInit
  PROVE  /\ Init \/ NoSession
         /\ open = "scanner" => Scanner!Init
         /\ open = "billing" => Billing!Init
         /\ open = "seating" => Seating!Init
         /\ open = "editor" => Editor!Init
         /\ open = "clients" => ClientList!Init
         /\ open = "staff" => Staff!Init
         /\ open = "venues" => Venues!Init
         /\ open = "guests" => Guests!Init
         /\ open = "templates" => Templates!Init
         /\ open = "ticket" => Ticket!Init
BY DEF PagesInit

\* A page that is opened waits for the requests it was opened with.
LEMMA ClientsInit ==
  ASSUME ClientList!Init PROVE ClientsWait
<1>1. s1 = SetToBag({ClientList!Load}) /\ ClientList!Load.op = "load"
  BY DEF ClientList!Init, ClientList!Load, ClientList!Call, ClientList!SetToBag, SetToBag
<1>2. IsABag(s1) /\ "load" \in Ops
  BY <1>1, Loading DEF Ops
<1> QED
  BY <1>2 DEF ClientList!Init, ClientsWait

LEMMA StaffInit ==
  ASSUME Staff!Init PROVE StaffWaits
<1>1. s1 = SetToBag({Staff!Load}) /\ Staff!Load.op = "load"
  BY DEF Staff!Init, Staff!Load, Staff!Call, Staff!SetToBag, SetToBag
<1>2. IsABag(s1) /\ "load" \in Ops
  BY <1>1, Loading DEF Ops
<1> QED
  BY <1>2 DEF Staff!Init, StaffWaits

LEMMA VenuesInit ==
  ASSUME Venues!Init PROVE VenuesWait
<1>1. s1 = SetToBag({Venues!Load}) /\ Venues!Load.op = "load"
  BY DEF Venues!Init, Venues!Load, Venues!Call, Venues!SetToBag, SetToBag
<1>2. IsABag(s1) /\ "load" \in Ops
  BY <1>1, Loading DEF Ops
<1> QED
  BY <1>2 DEF Venues!Init, VenuesWait

LEMMA GuestsInit ==
  ASSUME Guests!Init PROVE GuestsWait
<1>1. s1 = SetToBag({Guests!Load}) /\ Guests!Load.op = "events"
  BY DEF Guests!Init, Guests!Load, Guests!Call, Guests!SetToBag, SetToBag
<1>2. IsABag(s1) /\ "events" \in Ops
  BY <1>1, Loading DEF Ops
<1> QED
  BY <1>2 DEF Guests!Init, GuestsWait

LEMMA TicketInit ==
  ASSUME Ticket!Init PROVE TicketWaits
<1>1. s1 = SetToBag({Ticket!Load}) /\ Ticket!Load.op = "load"
  BY DEF Ticket!Init, Ticket!Load, Ticket!Call, Ticket!SetToBag, SetToBag
<1>2. IsABag(s1) /\ "load" \in Ops
  BY <1>1, Loading DEF Ops
<1> QED
  BY <1>2 DEF Ticket!Init, TicketWaits

\* The event on the server has a pair of one theme already.
LEMMA TemplatesInit ==
  ASSUME Templates!Init PROVE TemplatesInv
<1>1. \A t : Templates!Both(t).single = Templates!Both(t).couple
  BY DEF Templates!Both
<1>2. /\ s3.single = s3.couple /\ s6.single = s6.couple /\ s7.single = s7.couple
      /\ s8 = FALSE /\ s9 # "saving"
  BY <1>1 DEF Templates!Init
<1>3. PICK loads : s1 = SetToBag(loads) /\ loads \subseteq {Templates!Event(s3), Templates!List(s2)}
  BY DEF Templates!Init, Templates!SetToBag, SetToBag
<1>4. /\ Templates!Event(s3).pair = s3 /\ Templates!List(s2).op = "list"
  BY DEF Templates!Event, Templates!List, Templates!Call
<1>5. IsABag(s1) /\ DOMAIN s1 = loads
  BY <1>3, Loading
<1>6. \A c \in DOMAIN s1 : c.op \in {"choice", "event"} => c.pair.single = c.pair.couple
  BY <1>2, <1>3, <1>4, <1>5
<1> QED
  BY <1>2, <1>5, <1>6 DEF TemplatesInv

LEMMA PagesInitInv ==
  ASSUME PagesInit PROVE PagesInv
<1>1. ASSUME Scanner!Init PROVE ScannerInv
  BY <1>1 DEF Scanner!Init, ScannerInv, ScannerTypes, Scanner!NeverStuck, AtRest
<1>2. ASSUME Billing!Init PROVE BillingWaits
  BY <1>2 DEF Billing!Init, BillingWaits, Billing!SpinnerEnds
<1>3. ASSUME Seating!Init PROVE SeatingInv /\ SeatingLoads
  BY <1>3 DEF Seating!Init, SeatingInv, Seating!SidebarIsCurrent, SeatingLoads,
              Seating!SpinnerEnds
<1> QED
  BY <1>1, <1>2, <1>3, EditorInit, ClientsInit, StaffInit, VenuesInit, GuestsInit,
     TemplatesInit, TicketInit, OnePageInit
  DEF PagesInv

LEMMA PagesNextInv ==
  ASSUME PagesInv, [PagesNext]_pages
  PROVE  PagesInv'
BY OnePageSteps, ScannerStep, BillingStep, SeatingStep, SeatingLoadsStep, EditorStep,
   ClientsStep, StaffStep, VenuesStep, GuestsStep, TemplatesStep, TicketStep
DEF PagesInv

THEOREM PagesHold == PagesSpec => []PagesInv
BY PagesInitInv, PagesNextInv, PTL DEF PagesSpec

-----------------------------------------------------------------------------
(* What that says of the pages.                                            *)

\* The gate never goes dead, whatever is typed and found while a scan is under way
\* and in whatever order the camera, the server and the timer answer (scanFrame,
\* executeScan, showResult, resumeScanner).
THEOREM GateNeverStuck == PagesSpec => []NeverStuck
<1>1. PagesInv => NeverStuck
  BY DEF PagesInv, ScannerInv, NeverStuck
<1> QED
  BY <1>1, PagesHold, PTL

\* The page of the gate leaves no camera, timer or loop behind, unless something
\* of it was under way when it was left (ngOnDestroy, stopScanner).
THEOREM GateLeftQuietly == PagesSpec => []LeftQuietly
<1>1. PagesInv => LeftQuietly
  BY DEF PagesInv, ScannerInv, AtRest, LeftQuietly, Scanner!LeftQuietly
<1> QED
  BY <1>1, PagesHold, PTL

\* On none of the eight pages of SpinnersEnd a loader is shown or a button disabled
\* for nothing: a request whose answer ends it is under way, however many requests
\* there are and in whatever order they are answered (isLoading, isSubmitting, processingId and
\* the like, set by the handlers and taken down by the callbacks).
THEOREM WaitsEnd == PagesSpec => []SpinnersEnd
<1>1. ASSUME ClientsWait PROVE ClientList!SpinnersEnd
  BY <1>1, ClientListCalls
  DEF ClientsWait, ClientList!SpinnersEnd, ClientList!BagIn, ClientList!BagToSet
<1>2. ASSUME StaffWaits PROVE Staff!SpinnersEnd
  BY <1>2, StaffCalls DEF StaffWaits, Staff!SpinnersEnd, Staff!BagToSet
<1>3. ASSUME VenuesWait PROVE Venues!SpinnersEnd
  BY <1>3, VenuesCalls DEF VenuesWait, Venues!SpinnersEnd
<1>4. ASSUME GuestsWait PROVE Guests!SpinnersEnd
  BY <1>4, GuestsCalls DEF GuestsWait, Guests!SpinnersEnd
<1>5. ASSUME TemplatesInv PROVE Templates!SpinnersEnd
  BY <1>5, TemplatesCalls DEF TemplatesInv, Templates!SpinnersEnd
<1>6. ASSUME TicketWaits PROVE Ticket!SpinnersEnd
  BY <1>6, TicketCalls DEF TicketWaits, Ticket!SpinnersEnd
<1>7. BillingWaits => Billing!SpinnerEnds
  BY DEF BillingWaits
<1>8. PagesInv => SpinnersEnd
  BY <1>1, <1>2, <1>3, <1>4, <1>5, <1>6, <1>7 DEF PagesInv, SeatingLoads, SpinnersEnd
<1> QED
  BY <1>8, PagesHold, PTL

\* What the sidebar of the seating map speaks of is in the occupancy at hand, in
\* whichever room, and a selected chair belongs to the selected table, also after a reload that was asked
\* for before the selection (loadData, selectChair).
THEOREM SidebarStaysCurrent == PagesSpec => []SidebarIsCurrent
<1>1. PagesInv => SidebarIsCurrent
  BY DEF PagesInv, SeatingInv, SidebarIsCurrent
<1> QED
  BY <1>1, PagesHold, PTL

\* Whatever rooms are chosen, dropped and chosen again and whatever is laid out in
\* them, the room that is edited is one of the event's and tables exist in no
\* other room (toggleRoomSelection, setActiveRoom, updateCurrentTables, prefill).
THEOREM LayoutStaysInRooms == PagesSpec => []LayoutFollowsRooms
<1>1. PagesInv => LayoutFollowsRooms
  BY DEF PagesInv, EditorInv, LayoutFollowsRooms
<1> QED
  BY <1>1, PagesHold, PTL

\* Singles and couples get tickets of one theme, although choices and the loading
\* of the event overtake one another (ngOnInit, pick, chooseCombo).
THEOREM ThemesAgree == PagesSpec => []OneTheme
<1>1. ASSUME TemplatesInv PROVE Templates!OneTheme
  BY <1>1 DEF TemplatesInv, Templates!OneTheme, Templates!BagToSet
<1>2. PagesInv => OneTheme
  BY <1>1 DEF PagesInv, OneTheme
<1> QED
  BY <1>2, PagesHold, PTL

\* The session of the whole client opens a page that is for some roles for users of
\* these roles only (OpenedForTheRightUsers says it of the session alone).
THEOREM PagesOpenForTheRightUsers == PagesSpec => OpensForItsUser
<1>1. PagesInit => PassedRight
  <2>1. NoSession => PassedRight
    BY DEF NoSession, PassedRight, Nowhere
  <2> QED
    BY <2>1, OnePageInit, InitPassedRight
<1>2. PassedRight /\ [PagesNext]_pages => PassedRight' /\ [OpenRight]_vars
  BY OnePageSteps, NextPassedRight, NextOpensRight
<1> QED
  BY <1>1, <1>2, PTL DEF PagesSpec, OpensForItsUser

=============================================================================
