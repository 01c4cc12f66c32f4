------------------------------ MODULE TemplatesPage ------------------------------
(***************************************************************************)
(* The page on which the two tickets of an event are chosen                *)
(* (TicketTemplatesPageComponent), with the wizard that adds a theme and   *)
(* the store of the custom themes (CustomTemplateStore).                   *)
(*                                                                         *)
(* A theme has one template for singles and one for couples: a template is *)
(* named by its theme.  Events begin with the two classic ones.            *)
(***************************************************************************)
EXTENDS PageCalls, FiniteSets

CONSTANTS
  BuiltIn,   \* themes of the catalog, and the classic one, which is not in it
  Custom,    \* ids of themes that tenants add
  Classic,
  None

VARIABLES
  rows,       \* the custom themes the server has
  event,      \* the pair the server has stored for the event
  templates,  \* the custom themes the store knows
  theme,      \* the theme whose templates are shown, or None
  current,    \* the pair the page takes for the stored one
  selected,   \* the pair that is picked
  saving,     \* the button of the choice is disabled
  wizard      \* the wizard: "closed", "open" or "saving"

pairs == <<current, selected>>
server == <<rows, event>>
vars == <<calls, server, templates, theme, pairs, saving, wizard>>

Themes == BuiltIn \cup Custom
Pair == [single : Themes, couple : Themes]
Both(t) == [single |-> t, couple |-> t]

Event(pair) == [op |-> "event", pair |-> pair]
Choice(pair) == [op |-> "choice", pair |-> pair]
List(known) == Call("list", known)
Creation == Call("create", None)
Deletion(ids) == Call("delete", ids)

-----------------------------------------------------------------------------
(* What the page asks for at first.  The server's part of an answer is read *)
(* when the request is sent: the page cannot tell it from any later moment. *)

EventLoaded(call) ==
  /\ call.op = "event"
  /\ Answered(call, {})
  /\ current' = call.pair /\ selected' = call.pair
  /\ UNCHANGED <<server, templates, theme, saving, wizard>>

EventFailed(call) ==
  /\ call.op = "event"
  /\ Answered(call, {})
  /\ current' = Both(Classic) /\ selected' = Both(Classic)
  /\ UNCHANGED <<server, templates, theme, saving, wizard>>

Listed(call, success) ==
  /\ call.op = "list"
  /\ Answered(call, {})
  /\ templates' = IF success THEN call.id ELSE {}
  /\ UNCHANGED <<server, theme, pairs, saving, wizard>>

-----------------------------------------------------------------------------
(* Picking.                                                                *)

Catalog == (BuiltIn \ {Classic}) \cup templates

\* A theme comes with both its templates.
SelectTheme(t) ==
  /\ wizard = "closed" /\ theme = None /\ t \in Catalog
  /\ theme' = t
  /\ selected' = Both(t)
  /\ UNCHANGED <<calls, server, templates, current, saving, wizard>>

BackToThemes ==
  /\ wizard = "closed" /\ theme # None
  /\ theme' = None
  /\ UNCHANGED <<calls, server, templates, pairs, saving, wizard>>

\* A bug: the other template of the pair stays what it was.
MutantPick(type) ==
  /\ wizard = "closed" /\ theme \in Catalog
  /\ selected' = [selected EXCEPT ![type] = theme]
  /\ UNCHANGED <<calls, server, templates, theme, current, saving, wizard>>

\* The other template of the theme is picked along, for the theme still has both.
Pick(type) ==
  /\ wizard = "closed" /\ theme \in Catalog
  /\ selected' = Both(theme)
  /\ UNCHANGED <<calls, server, templates, theme, current, saving, wizard>>

\* Nothing is sent if the page takes the pair for the stored one.
ChooseCombo ==
  /\ wizard = "closed" /\ theme # None
  /\ ~ saving /\ selected # current
  /\ Send(Choice(selected))
  /\ saving' = TRUE
  /\ UNCHANGED <<server, templates, theme, pairs, wizard>>

\* The server refuses a theme it does not have.
ComboChosen(call) ==
  /\ call.op = "choice"
  /\ \A type \in {"single", "couple"} : call.pair[type] \in BuiltIn \cup rows
  /\ Answered(call, {})
  /\ event' = call.pair
  /\ current' = call.pair /\ selected' = call.pair
  /\ saving' = FALSE
  /\ UNCHANGED <<rows, templates, theme, wizard>>

ChoiceFailed(call) ==
  /\ call.op = "choice"
  /\ Answered(call, {})
  /\ saving' = FALSE
  /\ UNCHANGED <<server, templates, theme, pairs, wizard>>

-----------------------------------------------------------------------------
(* The wizard and the deletions.                                           *)

OpenWizard ==
  /\ wizard = "closed"
  /\ wizard' = "open"
  /\ UNCHANGED <<calls, server, templates, theme, pairs, saving>>

CloseWizard ==
  /\ wizard # "closed"
  /\ wizard' = "closed"
  /\ UNCHANGED <<calls, server, templates, theme, pairs, saving>>

SubmitWizard ==
  /\ wizard = "open"
  /\ Send(Creation)
  /\ wizard' = "saving"
  /\ UNCHANGED <<server, templates, theme, pairs, saving>>

\* A wizard that was closed meanwhile no longer tells the page.
ThemeCreated(t) ==
  /\ t \notin rows
  /\ Answered(Creation, IF wizard = "saving" THEN {List(rows \cup {t})} ELSE {})
  /\ rows' = rows \cup {t}
  /\ wizard' = IF wizard = "saving" THEN "closed" ELSE wizard
  /\ UNCHANGED <<event, templates, theme, pairs, saving>>

CreationFailed ==
  /\ Answered(Creation, {})
  /\ wizard' = IF wizard = "saving" THEN "open" ELSE wizard
  /\ UNCHANGED <<server, templates, theme, pairs, saving>>

\* A theme, or all themes of a category, one request after the other.
Delete(ids) ==
  /\ wizard = "closed" /\ ids # {} /\ ids \subseteq templates
  /\ Send(Deletion(ids))
  /\ UNCHANGED <<server, templates, theme, pairs, saving, wizard>>

\* The list is asked for after the last.
ThemeDeleted(call, t) ==
  /\ call.op = "delete" /\ t \in call.id
  /\ Answered(call, IF call.id = {t} THEN {List(rows \ {t})} ELSE {Deletion(call.id \ {t})})
  /\ rows' = rows \ {t}
  /\ UNCHANGED <<event, templates, theme, pairs, saving, wizard>>

\* The rest is not deleted, and the list is not asked for.
DeletionFailed(call) ==
  /\ call.op = "delete"
  /\ Answered(call, {})
  /\ UNCHANGED <<server, templates, theme, pairs, saving, wizard>>

-----------------------------------------------------------------------------

\* The store may have loaded its list on an earlier visit.
Init ==
  /\ rows \in SUBSET Custom
  /\ event \in {Both(t) : t \in Themes}
  /\ \E known \in SUBSET Custom :
       \/ templates = {} /\ calls = SetToBag({Event(event), List(rows)})
       \/ templates = known /\ calls = SetToBag({Event(event)})
  /\ theme = None
  /\ current = Both(Classic) /\ selected = Both(Classic)
  /\ saving = FALSE
  /\ wizard = "closed"

Next ==
  \/ \E call \in BagToSet(calls) :
       \/ EventLoaded(call) \/ EventFailed(call)
       \/ \E success \in BOOLEAN : Listed(call, success)
       \/ ComboChosen(call) \/ ChoiceFailed(call)
       \/ \E t \in Custom : ThemeDeleted(call, t)
       \/ DeletionFailed(call)
  \/ \E t \in Themes : SelectTheme(t)
  \/ BackToThemes
  \/ \E type \in {"single", "couple"} : Pick(type)
  \/ ChooseCombo
  \/ OpenWizard \/ CloseWizard \/ SubmitWizard
  \/ \E t \in Custom : ThemeCreated(t)
  \/ CreationFailed
  \/ \E ids \in SUBSET Custom : Delete(ids)

Spec == Init /\ [][Next]_vars

-----------------------------------------------------------------------------

\* Singles and couples of an event get tickets of one theme: what is picked, what
\* is sent and what is stored are pairs of one theme, whichever is clicked, however
\* late the event's own pair arrives, and whatever themes are added and deleted.
OneTheme ==
  /\ \A pair \in {event, current, selected} : pair.single = pair.couple
  /\ \A call \in BagToSet(calls) : call.op = "choice" => call.pair.single = call.pair.couple

\* The two disabled buttons of the page come back.
SpinnersEnd ==
  /\ saving => UnderWay("choice")
  /\ wizard = "saving" => UnderWay("create")

=============================================================================
