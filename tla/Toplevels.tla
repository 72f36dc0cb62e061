------------------------------- MODULE Toplevels -------------------------------
(***************************************************************************)
(* The toplevel clients over Wayland: enumerate_windows and             *)
(* activate_window, their event handlers and roundtrip_with_timeout       *)
(* (src/src/platform/wayland/protocols.rs), one after the other as        *)
(* run_launcher calls them, against a compositor that keeps changing.     *)
(*                                                                         *)
(* The client binds ext_foreign_toplevel_list and zcosmic_toplevel_info,  *)
(* runs a roundtrip, requests a cosmic handle for every toplevel it has,  *)
(* runs a second roundtrip, then filters and reorders the toplevels.  The *)
(* compositor answers a bind with a Toplevel, AppId and Done event per    *)
(* open window, answers get_cosmic_toplevel with a State event, and sends *)
(* events of its own when a window opens, closes, changes its title or    *)
(* gains the focus.  Events travel in order on one connection (chan).     *)
(* Identifiers and titles are payload: a Title event carries nothing and  *)
(* every window has an identifier, its handle.  activate_window opens a    *)
(* new connection, binds the same globals and the toplevel manager, finds *)
(* the target among the toplevels, requests its cosmic handle, sends      *)
(* activate and waits for one more roundtrip.                             *)
(***************************************************************************)
EXTENDS Naturals, Sequences, SequencesExt

CONSTANTS
    Handles,        \* toplevel handles, one per window the compositor may show
    AppChoices,     \* app id assignments: handle -> app id, "" or NoAppId
    NoAppId,        \* a window that never sends app_id (None)
    NoWindow,       \* nothing focused
    MaxChanges      \* compositor changes during one enumeration

VARIABLES
    open,           \* compositor: the open windows
    appOf,          \* compositor: the app id of each window, or NoAppId
    focus,          \* compositor: the activated window, or NoWindow
    cosmicOf,       \* compositor: windows with a cosmic handle of this client
    bound,          \* compositor: the toplevel list is bound
    infoBurst,      \* compositor: binding the info global makes it send an event
    chan,           \* events sent and not yet dispatched
    changes,        \* compositor changes so far
    epc,            \* client: "bind", "rt1", "request", "rt2", "done" or "failed"
    pending,        \* pending: handle -> PendingToplevel
    toplevels,      \* toplevels: sequence of [h, app, act]
    cosmicPending,  \* the handles cosmic handles were requested for
    listing,        \* the returned Vec<Window>: sequence of [h, app, focused]
    born,           \* history: windows opened after the bind
    gone,           \* history: windows closed after the bind
    focusMoved,     \* history: the focus changed after the bind
    apc,            \* activate_window: "bind", "rt1", "request", "rt2", "rt3",
                    \* "ok", "failed" or "notfound"
    apending,       \* ActivationState.pending, as a set of handles
    atoplevels,     \* ActivationState.toplevels, as a sequence of handles
    target,         \* the window to activate
    cosmicHandle,   \* the window ActivationState.cosmic_handle is for, or NoWindow
    activated,      \* ActivationState.activated
    activateAt      \* history: changes when activate was sent

toplevelVars == <<open, appOf, focus, cosmicOf, bound, infoBurst, chan, changes,
                  epc, pending, toplevels, cosmicPending, listing, born, gone,
                  focusMoved, apc, apending, atoplevels, target, cosmicHandle,
                  activated, activateAt>>

Ev(type, h) == [type |-> type, h |-> h]
AppIdEv(h, a) == [type |-> "AppId", h |-> h, app |-> a]
StateEv(h, act) == [type |-> "State", h |-> h, act |-> act]
InfoEv == [type |-> "Info", h |-> NoWindow]

\* What the list sends about a window it announces: toplevel, app_id
\* unless the window has none, done.
Announce(h) ==
    <<Ev("Toplevel", h)>>
    \o (IF appOf[h] = NoAppId THEN <<>> ELSE <<AppIdEv(h, appOf[h])>>)
    \o <<Ev("Done", h)>>

AnnounceAll(hs) == FoldLeft(LAMBDA acc, h : acc \o Announce(h), <<>>, SetToSeq(hs))

\* Faulty variant: Done copies the pending entry and leaves it pending.
DispatchDoneKeepsPending(st, e) ==
    LET h == e.h IN
    CASE e.type = "Toplevel" ->
            [st EXCEPT !.pending = (h :> [app |-> NoAppId, act |-> FALSE]) @@ @]
      [] e.type = "AppId" /\ h \in DOMAIN st.pending ->
            [st EXCEPT !.pending[h].app = e.app]
      [] e.type = "Done" /\ h \in DOMAIN st.pending ->
            [st EXCEPT !.toplevels = Append(@, [h |-> h] @@ st.pending[h])]
      [] e.type = "Closed" ->
            [st EXCEPT !.pending = [g \in DOMAIN @ \ {h} |-> @[g]]]
      [] e.type = "State" /\ h \in st.cosmicPending /\ e.act
           /\ \E i \in DOMAIN st.toplevels : st.toplevels[i].h = h ->
            LET i == CHOOSE i \in DOMAIN st.toplevels :
                        /\ st.toplevels[i].h = h
                        /\ \A j \in 1..i - 1 : st.toplevels[j].h # h
            IN  [st EXCEPT !.toplevels[i].act = TRUE]
      [] OTHER -> st

(***************************************************************************)
(* The Dispatch impls, as one step on [pending, toplevels, cosmicPending].*)
(* Toplevel inserts a default PendingToplevel; AppId and Title update a   *)
(* pending entry only; Done moves a pending entry to toplevels; Closed    *)
(* drops a pending entry; a cosmic State event for a requested handle    *)
(* containing the activated state (2) marks the first toplevel with that *)
(* handle.  Other events change nothing.                                   *)
(***************************************************************************)
Dispatch(st, e) ==
    LET h == e.h IN
    CASE e.type = "Toplevel" ->
            [st EXCEPT !.pending = (h :> [app |-> NoAppId, act |-> FALSE]) @@ @]
      [] e.type = "AppId" /\ h \in DOMAIN st.pending ->
            [st EXCEPT !.pending[h].app = e.app]
      [] e.type = "Done" /\ h \in DOMAIN st.pending ->
            [st EXCEPT !.toplevels = Append(@, [h |-> h] @@ st.pending[h]),
                       !.pending = [g \in DOMAIN @ \ {h} |-> @[g]]]
      [] e.type = "Closed" ->
            [st EXCEPT !.pending = [g \in DOMAIN @ \ {h} |-> @[g]]]
      [] e.type = "State" /\ h \in st.cosmicPending /\ e.act
           /\ \E i \in DOMAIN st.toplevels : st.toplevels[i].h = h ->
            LET i == CHOOSE i \in DOMAIN st.toplevels :
                        /\ st.toplevels[i].h = h
                        /\ \A j \in 1..i - 1 : st.toplevels[j].h # h
            IN  [st EXCEPT !.toplevels[i].act = TRUE]
      [] OTHER -> st

ClientState == [pending |-> pending, toplevels |-> toplevels,
                cosmicPending |-> cosmicPending]

\* Faulty variant: the focused window stays where the compositor put it.
FinishKeepsOrder(tl) ==
    LET kept == SelectSeq(tl, LAMBDA t : t.app \notin {NoAppId, ""})
    IN  [i \in DOMAIN kept |-> [h |-> kept[i].h, app |-> kept[i].app,
                                focused |-> kept[i].act]]

\* The tail of enumerate_windows: drop toplevels without an app id or with
\* an empty one, then move the first focused window to the end.
Finish(tl) ==
    LET kept == SelectSeq(tl, LAMBDA t : t.app \notin {NoAppId, ""})
        ws == [i \in DOMAIN kept |-> [h |-> kept[i].h, app |-> kept[i].app,
                                      focused |-> kept[i].act]]
        fs == {i \in DOMAIN ws : ws[i].focused}
    IN  IF fs = {} THEN ws
        ELSE LET f == Min(fs) IN RemoveAt(ws, f) \o <<ws[f]>>

compositorVars == <<open, appOf, focus, cosmicOf, bound, infoBurst, changes,
                    born, gone, focusMoved>>
enumClientVars == <<epc, pending, toplevels, cosmicPending, listing>>
activationVars == <<apc, apending, atoplevels, target, cosmicHandle, activated,
                    activateAt>>

ToplevelInit ==
    /\ open \in SUBSET Handles
    /\ appOf \in AppChoices
    /\ focus \in open \cup {NoWindow}
    /\ cosmicOf = {}
    /\ bound = FALSE
    /\ infoBurst \in BOOLEAN
    /\ chan = <<>>
    /\ changes = 0
    /\ epc = "bind"
    /\ pending = <<>> /\ toplevels = <<>> /\ cosmicPending = {}
    /\ listing = <<>>
    /\ born = {} /\ gone = {} /\ focusMoved = FALSE
    /\ apc = "bind" /\ apending = {} /\ atoplevels = <<>>
    /\ target = NoWindow /\ cosmicHandle = NoWindow /\ activated = FALSE
    /\ activateAt = 0

(***************************************************************************)
(* The client.  EnumerationState::bind and the flush of the first         *)
(* roundtrip: the compositor announces every open window (and may send an *)
(* event on the info global, which the client ignores).                    *)
(***************************************************************************)
Bind ==
    /\ epc = "bind"
    /\ bound' = TRUE
    /\ chan' = AnnounceAll(open) \o (IF infoBurst THEN <<InfoEv>> ELSE <<>>)
    /\ epc' = "rt1"
    /\ UNCHANGED <<open, appOf, focus, cosmicOf, infoBurst, changes, born, gone,
                   focusMoved, pending, toplevels, cosmicPending, listing>>
    /\ UNCHANGED activationVars

\* roundtrip_with_timeout once the socket is readable: read, dispatch, and a
\* blocking roundtrip, which dispatches every event sent before the
\* compositor answered the sync.
Roundtrip1 ==
    /\ epc = "rt1" /\ chan # <<>>
    /\ LET st == FoldLeft(Dispatch, ClientState, chan)
       IN  pending' = st.pending /\ toplevels' = st.toplevels
    /\ chan' = <<>>
    /\ epc' = "request"
    /\ UNCHANGED <<cosmicPending, listing>>
    /\ UNCHANGED compositorVars /\ UNCHANGED activationVars

\* get_cosmic_toplevel for every toplevel, and the flush of the second
\* roundtrip: the compositor gives each handle of an open window a cosmic
\* handle and sends its state.
RequestCosmic ==
    /\ epc = "request"
    /\ LET req == {toplevels[i].h : i \in DOMAIN toplevels}
           answered == SelectSeq([i \in DOMAIN toplevels |-> toplevels[i].h],
                                 LAMBDA h : h \in open)
       IN  /\ cosmicPending' = req
           /\ cosmicOf' = cosmicOf \cup (req \cap open)
           /\ chan' = chan \o [i \in DOMAIN answered |->
                                  StateEv(answered[i], answered[i] = focus)]
    /\ epc' = "rt2"
    /\ UNCHANGED <<open, appOf, focus, bound, infoBurst, changes, born, gone,
                   focusMoved, pending, toplevels, listing>>
    /\ UNCHANGED activationVars

\* The second roundtrip and the rest of enumerate_windows.
Roundtrip2 ==
    /\ epc = "rt2" /\ chan # <<>>
    /\ LET st == FoldLeft(Dispatch, ClientState, chan)
       IN  /\ pending' = st.pending /\ toplevels' = st.toplevels
           /\ listing' = Finish(st.toplevels)
    /\ chan' = <<>>
    /\ epc' = "done"
    /\ UNCHANGED cosmicPending
    /\ UNCHANGED compositorVars /\ UNCHANGED activationVars

\* Nothing became readable before the timeout: enumerate_windows fails.
RoundtripTimeout ==
    /\ epc \in {"rt1", "rt2"} /\ chan = <<>>
    /\ epc' = "failed"
    /\ UNCHANGED <<chan, pending, toplevels, cosmicPending, listing>>
    /\ UNCHANGED compositorVars /\ UNCHANGED activationVars

(***************************************************************************)
(* The compositor while the client enumerates.                            *)
(***************************************************************************)
\* Both clients have returned, or run_launcher has nothing to activate.
Ended ==
    \/ epc = "failed"
    \/ apc \in {"ok", "failed", "notfound"}
    \/ epc = "done" /\ listing = <<>>

Changing == bound /\ ~Ended /\ changes < MaxChanges

CompositorStep ==
    /\ changes' = changes + 1
    /\ UNCHANGED <<appOf, bound, infoBurst>> /\ UNCHANGED enumClientVars /\ UNCHANGED activationVars

\* The user focuses w: cosmic handles of the old and the new window get
\* their new state.
FocusWindow(w) ==
    /\ Changing /\ w \in open \ {focus}
    /\ focus' = w /\ focusMoved' = TRUE
    /\ chan' = chan \o SelectSeq(<<StateEv(focus, FALSE), StateEv(w, TRUE)>>,
                                  LAMBDA e : e.h \in cosmicOf)
    /\ CompositorStep
    /\ UNCHANGED <<open, cosmicOf, born, gone>>

CloseWindow(w) ==
    /\ Changing /\ w \in open
    /\ open' = open \ {w} /\ gone' = gone \cup {w}
    /\ focus' = IF focus = w THEN NoWindow ELSE focus
    /\ focusMoved' = (focusMoved \/ focus = w)
    /\ chan' = Append(chan, Ev("Closed", w))
    /\ CompositorStep
    /\ UNCHANGED <<cosmicOf, born>>

\* A new window: a handle that was never announced before.
OpenWindow(w) ==
    /\ Changing /\ w \notin open \cup born \cup gone
    /\ open' = open \cup {w} /\ born' = born \cup {w}
    /\ chan' = chan \o Announce(w)
    /\ CompositorStep
    /\ UNCHANGED <<focus, cosmicOf, gone, focusMoved>>

\* A title change: title, then done again.
Retitle(w) ==
    /\ Changing /\ w \in open
    /\ chan' = chan \o <<Ev("Title", w), Ev("Done", w)>>
    /\ CompositorStep
    /\ UNCHANGED <<open, focus, cosmicOf, born, gone, focusMoved>>

(***************************************************************************)
(* activate_window, run by run_launcher for a window of the listing.      *)
(* The Dispatch impls of ActivationState: Toplevel adds a pending entry;  *)
(* Done moves a pending entry with an identifier to toplevels; Identifier *)
(* and AppId fill the pending entry; everything else, Closed and the      *)
(* cosmic events included, is ignored.                                     *)
(***************************************************************************)
ADispatch(st, e) ==
    CASE e.type = "Toplevel" ->
            [st EXCEPT !.apending = @ \cup {e.h}]
      [] e.type = "Done" /\ e.h \in st.apending ->
            [st EXCEPT !.atoplevels = Append(@, e.h), !.apending = @ \ {e.h}]
      [] OTHER -> st

AClientState == [apending |-> apending, atoplevels |-> atoplevels]

\* A new connection: the compositor announces the open windows to it; the
\* events of the enumeration's connection are gone with it.
ABind ==
    /\ epc = "done" /\ apc = "bind" /\ listing # <<>>
    /\ \E i \in DOMAIN listing : target' = listing[i].h
    /\ chan' = AnnounceAll(open) \o (IF infoBurst THEN <<InfoEv>> ELSE <<>>)
    /\ cosmicOf' = {}
    /\ apc' = "rt1"
    /\ UNCHANGED <<open, appOf, focus, bound, infoBurst, changes, born, gone,
                   focusMoved, apending, atoplevels, cosmicHandle, activated,
                   activateAt>>
    /\ UNCHANGED enumClientVars

ARoundtrip1 ==
    /\ apc = "rt1" /\ chan # <<>>
    /\ LET st == FoldLeft(ADispatch, AClientState, chan)
       IN  apending' = st.apending /\ atoplevels' = st.atoplevels
    /\ chan' = <<>>
    /\ apc' = "request"
    /\ UNCHANGED <<target, cosmicHandle, activated, activateAt>>
    /\ UNCHANGED compositorVars /\ UNCHANGED enumClientVars

\* Faulty variant: the first toplevel is taken, whatever its identifier.
ARequestFirstToplevel ==
    /\ apc = "request"
    /\ IF atoplevels # <<>>
       THEN LET h == atoplevels[1] IN
            /\ apc' = "rt2" /\ cosmicHandle' = h
            /\ cosmicOf' = {h} \cap open
            /\ chan' = chan \o (IF h \in open THEN <<StateEv(h, h = focus)>> ELSE <<>>)
       ELSE apc' = "notfound" /\ UNCHANGED <<cosmicOf, chan, cosmicHandle>>
    /\ UNCHANGED <<open, appOf, focus, bound, infoBurst, changes, born, gone,
                   focusMoved, apending, atoplevels, target, activated, activateAt>>
    /\ UNCHANGED enumClientVars

\* Faulty variant: the target is looked up among the pending toplevels.
ARequestSearchesPending ==
    /\ apc = "request"
    /\ IF target \in apending
       THEN /\ apc' = "rt2" /\ cosmicHandle' = target
            /\ cosmicOf' = {target} \cap open
            /\ chan' = chan \o (IF target \in open THEN <<StateEv(target, target = focus)>>
                                ELSE <<>>)
       ELSE apc' = "notfound" /\ UNCHANGED <<cosmicOf, chan, cosmicHandle>>
    /\ UNCHANGED <<open, appOf, focus, bound, infoBurst, changes, born, gone,
                   focusMoved, apending, atoplevels, target, activated, activateAt>>
    /\ UNCHANGED enumClientVars

\* request_cosmic_handle, and WindowNotFound when it returns false: the
\* first toplevel with the target's identifier gets a cosmic handle, which
\* the compositor answers at the flush of the second roundtrip with the
\* window's state if it is still open.
ARequest ==
    /\ apc = "request"
    /\ IF \E i \in DOMAIN atoplevels : atoplevels[i] = target
       THEN /\ apc' = "rt2" /\ cosmicHandle' = target
            /\ cosmicOf' = {target} \cap open
            /\ chan' = chan \o (IF target \in open THEN <<StateEv(target, target = focus)>>
                                ELSE <<>>)
       ELSE apc' = "notfound" /\ UNCHANGED <<cosmicOf, chan, cosmicHandle>>
    /\ UNCHANGED <<open, appOf, focus, bound, infoBurst, changes, born, gone,
                   focusMoved, apending, atoplevels, target, activated, activateAt>>
    /\ UNCHANGED enumClientVars

(***************************************************************************)
(* The second roundtrip, then activate(): manager.activate is sent and    *)
(* activated set at once.  The compositor handles the request at the      *)
(* flush of the third roundtrip: an open window that is not focused gets  *)
(* the focus, and its cosmic handle the activated state; activating the   *)
(* focused window or a closed one changes nothing and sends nothing.      *)
(***************************************************************************)
ARoundtrip2 ==
    /\ apc = "rt2" /\ chan # <<>>
    /\ LET st == FoldLeft(ADispatch, AClientState, chan)
           sent == ~activated /\ cosmicHandle # NoWindow
           moves == sent /\ cosmicHandle \in open /\ cosmicHandle # focus
       IN  /\ apending' = st.apending /\ atoplevels' = st.atoplevels
           /\ activated' = (activated \/ sent)
           /\ focus' = IF moves THEN cosmicHandle ELSE focus
           /\ focusMoved' = (focusMoved \/ moves)
           /\ chan' = IF moves THEN <<StateEv(cosmicHandle, TRUE)>> ELSE <<>>
    /\ activateAt' = changes
    /\ apc' = "rt3"
    /\ UNCHANGED <<open, appOf, cosmicOf, bound, infoBurst, changes, born, gone,
                   target, cosmicHandle>>
    /\ UNCHANGED enumClientVars

\* The third roundtrip; Ok when activated is set.
ARoundtrip3 ==
    /\ apc = "rt3" /\ chan # <<>>
    /\ LET st == FoldLeft(ADispatch, AClientState, chan)
       IN  apending' = st.apending /\ atoplevels' = st.atoplevels
    /\ chan' = <<>>
    /\ apc' = IF activated THEN "ok" ELSE "failed"
    /\ UNCHANGED <<target, cosmicHandle, activated, activateAt>>
    /\ UNCHANGED compositorVars /\ UNCHANGED enumClientVars

ATimeout ==
    /\ apc \in {"rt1", "rt2", "rt3"} /\ chan = <<>>
    /\ apc' = "failed"
    /\ UNCHANGED <<chan, apending, atoplevels, target, cosmicHandle, activated,
                   activateAt>>
    /\ UNCHANGED compositorVars /\ UNCHANGED enumClientVars

ToplevelNext ==
    \/ Bind \/ Roundtrip1 \/ RequestCosmic \/ Roundtrip2 \/ RoundtripTimeout
    \/ ABind \/ ARoundtrip1 \/ ARequest \/ ARoundtrip2 \/ ARoundtrip3 \/ ATimeout
    \/ \E w \in Handles : FocusWindow(w) \/ CloseWindow(w) \/ OpenWindow(w) \/ Retitle(w)
====
