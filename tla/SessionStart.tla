---------------------------- MODULE SessionStart ----------------------------
(***************************************************************************)
(* How one window gets into a session and out of it: the host's wizard     *)
(* (ui/WizardPanel.ts with its webview), the join panel (ui/JoinPanel.ts   *)
(* with its webview), the deep-link handler and the two slots activeHost   *)
(* and activeClient of extension.ts.                                       *)
(*                                                                         *)
(* Every panel is a webview of its own: it shows the last state it was     *)
(* sent, and what the user can click is decided by what is shown, not by   *)
(* what is stored.  Starting a host and joining one are asynchronous, and  *)
(* nothing stops the user from clicking again, going back or closing the   *)
(* panel meanwhile.  A call on the webview of a closed panel throws, which *)
(* is where a start whose panel was closed ends.                           *)
(***************************************************************************)
EXTENDS Integers, FiniteSets

CONSTANTS
    Panel,      \* the panels the window may open, of either kind
    Job,        \* the starts and the joins the user may ask for
    Link,       \* the deep links that arrive
    MaxTests,   \* bound: connection tests in flight
    MaxOpening, \* bound: calls of the host command waiting for a free port
    None

ASSUME ConstantsAssumption ==
    /\ IsFiniteSet(Panel) /\ IsFiniteSet(Job) /\ IsFiniteSet(Link)
    /\ MaxTests \in Nat /\ MaxOpening \in Nat
    /\ None \notin Panel \cup Job \cup Link

VARIABLES
    opening,        \* calls of WizardPanel.createOrShow awaiting findFreePort
    kind,           \* what each panel is
    wizard,         \* WizardState, and the step the webview shows
    form,           \* JoinState, and what the webview shows of it
    tests,          \* tests of the relay in flight, per panel
    currentWizard,  \* WizardPanel.currentPanel
    currentJoin,    \* JoinPanel.currentPanel
    job,            \* handleWizardComplete and handleJoinConnect calls
    serving,        \* the hosts that listen
    connected,      \* the clients that hold a seat
    activeHost,
    activeClient

vars == <<opening, kind, wizard, form, tests, currentWizard, currentJoin, job,
          serving, connected, activeHost, activeClient>>

FreshWizard == [step |-> 1, shown |-> 1, mode |-> "lan", reachable |-> "unknown",
                confirmed |-> FALSE, host |-> None]

FreshForm == [ready |-> FALSE, up |-> FALSE, pending |-> None, link |-> None,
              shown |-> None, wanted |-> None, connecting |-> FALSE]

NoJob == [stage |-> "unused", panel |-> None, untested |-> FALSE]

Busy == {"creating", "binding", "storing", "dialing", "saving"}

SessionTypeOK ==
    /\ opening \in 0 .. MaxOpening
    /\ kind \in [Panel -> {"unused", "wizard", "join", "closed"}]
    /\ wizard \in [Panel -> [step : 1 .. 5, shown : 1 .. 5, mode : {"lan", "cloud"},
                             reachable : {"unknown", "yes", "no"}, confirmed : BOOLEAN,
                             host : Job \cup {None}]]
    /\ form \in [Panel -> [ready : BOOLEAN, up : BOOLEAN, connecting : BOOLEAN,
                           pending : Link \cup {None}, link : Link \cup {None},
                           shown : Link \cup {None}, wanted : Link \cup {None}]]
    /\ tests \in [Panel -> 0 .. MaxTests]
    /\ {currentWizard, currentJoin} \subseteq Panel \cup {None}
    /\ job \in [Job -> [stage : Busy \cup {"unused", "done"}, panel : Panel \cup {None},
                        untested : BOOLEAN]]
    /\ serving \subseteq Job /\ connected \subseteq Job
    /\ {activeHost, activeClient} \subseteq Job \cup {None}

Init ==
    /\ opening = 0
    /\ kind = [p \in Panel |-> "unused"]
    /\ wizard = [p \in Panel |-> FreshWizard]
    /\ form = [p \in Panel |-> FreshForm]
    /\ tests = [p \in Panel |-> 0]
    /\ currentWizard = None /\ currentJoin = None
    /\ job = [j \in Job |-> NoJob]
    /\ serving = {} /\ connected = {}
    /\ activeHost = None /\ activeClient = None

-----------------------------------------------------------------------------
(* The host's wizard.  sendStateUpdate shows what is stored. *)

Shows(w) == [w EXCEPT !.shown = w.step]

IsWizard(p) == kind[p] = "wizard"

\* What the webview offers, by what it shows.  A button may stay enabled for a
\* moment longer than the state it should follow.
OffersNext(w) == w.shown \in 1 .. 3

OffersBack(w) == w.shown \in 2 .. 4

OffersModes(w) == w.shown = 2

OffersRelay(w) == w.shown = 3 /\ w.mode = "cloud"

OffersStart(w) == w.shown = 4

SharesSession(w) == w.shown = 5

Fresh(p) == kind[p] = "unused"

WizardOnly == UNCHANGED <<opening, kind, form, currentWizard, currentJoin, job,
                          serving, connected, activeHost, activeClient>>

\* versioncon.hostSession: a panel that is open is only revealed.
HostCommand ==
    /\ currentWizard = None
    /\ opening < MaxOpening
    /\ opening' = opening + 1
    /\ UNCHANGED <<kind, wizard, form, tests, currentWizard, currentJoin, job,
                   serving, connected, activeHost, activeClient>>

\* The free port is found.  currentPanel is not looked at again.
WizardOpens(p) ==
    /\ opening > 0
    /\ Fresh(p)
    /\ opening' = opening - 1
    /\ kind' = [kind EXCEPT ![p] = "wizard"]
    /\ wizard' = [wizard EXCEPT ![p] = FreshWizard]
    /\ currentWizard' = p
    /\ UNCHANGED <<form, tests, currentJoin, job, serving, connected,
                   activeHost, activeClient>>

\* Next on step 1 with two valid names.
NextNames(w) == [w EXCEPT !.step = 2]

\* Next on step 2 with the radio that is checked.
NextMode(w) == [w EXCEPT !.step = 3]

\* Next on step 3: port and payload on a LAN, a tested relay on a cloud.
NextNetwork(w) ==
    IF w.mode = "cloud" /\ w.reachable # "yes" THEN w ELSE [w EXCEPT !.step = 4]

Advanced(w) ==
    CASE w.step = 1 -> NextNames(w)
      [] w.step = 2 -> NextMode(w)
      [] w.step = 3 -> NextNetwork(w)
      [] OTHER -> w

\* The button is there on the steps 1 to 3 that are shown; the handler goes by
\* the step that is stored.
WizardNext(p) ==
    /\ IsWizard(p)
    /\ OffersNext(wizard[p])
    /\ wizard' = [wizard EXCEPT ![p] = Shows(Advanced(@))]
    /\ UNCHANGED tests /\ WizardOnly

Retreated(w) == [w EXCEPT !.step = @ - 1]

WizardBack(p) ==
    /\ IsWizard(p)
    /\ OffersBack(wizard[p])
    /\ wizard[p].step \in 2 .. 4
    /\ wizard' = [wizard EXCEPT ![p] = Shows(Retreated(@))]
    /\ UNCHANGED tests /\ WizardOnly

SetMode(p, mode) ==
    /\ IsWizard(p)
    /\ OffersModes(wizard[p])
    /\ wizard' = [wizard EXCEPT ![p] = Shows([@ EXCEPT !.mode = mode])]
    /\ UNCHANGED tests /\ WizardOnly

\* Slip: the verdict on the former URL is kept.
EditedOnly(w) == Shows([w EXCEPT !.confirmed = FALSE])

Edited(w) == Shows([w EXCEPT !.reachable = "unknown", !.confirmed = FALSE])

\* An input event of the relay URL: an earlier verdict is void.
EditUrl(p) ==
    /\ IsWizard(p)
    /\ OffersRelay(wizard[p])
    /\ wizard' = [wizard EXCEPT ![p] = Edited(@)]
    /\ UNCHANGED tests /\ WizardOnly

\* Test connection: the webview fetches /healthz on its own.
Test(p) ==
    /\ IsWizard(p)
    /\ OffersRelay(wizard[p])
    /\ tests[p] < MaxTests
    /\ tests' = [tests EXCEPT ![p] = @ + 1]
    /\ UNCHANGED wizard /\ WizardOnly

Verdict(w, ok) ==
    Shows([w EXCEPT !.reachable = IF ok THEN "yes" ELSE "no",
                    !.confirmed = @ \/ ok])

\* A verdict arrives, whatever the field and the step are by now.
TestResult(p, ok) ==
    /\ IsWizard(p)
    /\ tests[p] > 0
    /\ tests' = [tests EXCEPT ![p] = @ - 1]
    /\ wizard' = [wizard EXCEPT ![p] = Verdict(@, ok)]
    /\ WizardOnly

\* The tab is hidden and shown again: the webview starts anew, its tests are
\* gone, and it asks for the state.
RevisitWizard(p) ==
    /\ IsWizard(p)
    /\ wizard' = [wizard EXCEPT ![p] = Shows(@)]
    /\ tests' = [tests EXCEPT ![p] = 0]
    /\ WizardOnly

\* What a closed wizard holds is not looked at again.
WizardClosed(p) ==
    /\ kind' = [kind EXCEPT ![p] = "closed"]
    /\ wizard' = [wizard EXCEPT ![p] = FreshWizard]
    /\ tests' = [tests EXCEPT ![p] = 0]
    /\ currentWizard' = None

\* dispose: the session is not stopped, and the slot is emptied whichever panel
\* it held.
CloseWizard(p) ==
    /\ IsWizard(p)
    /\ WizardClosed(p)
    /\ UNCHANGED <<opening, form, currentJoin, job, serving, connected,
                   activeHost, activeClient>>

-----------------------------------------------------------------------------
(* handleWizardComplete, from the click to the callback.  A call that is     *)
(* under way does not keep the user from clicking Start, Back or Next.       *)

Unused(j) == job[j].stage = "unused"

At(j, stage) == job[j].stage = stage

OnlyJob(j, stage) == job' = [job EXCEPT ![j].stage = stage]

InWizard(j, F(_)) ==
    IF IsWizard(job[j].panel) THEN [wizard EXCEPT ![job[j].panel] = F(@)] ELSE wizard

JobsOnly == UNCHANGED <<opening, kind, form, tests, currentWizard, currentJoin,
                        connected, activeHost, activeClient>>

\* The button of step 4.  A LAN host is constructed at once and starts to bind;
\* a cloud host is created behind an await.
Start(p, j) ==
    LET cloud == wizard[p].mode = "cloud"
    IN /\ IsWizard(p)
       /\ OffersStart(wizard[p])
       /\ Unused(j)
       /\ job' = [job EXCEPT ![j] =
                    [stage |-> IF cloud THEN "creating" ELSE "binding", panel |-> p,
                     untested |-> cloud /\ ~wizard[p].confirmed]]
       /\ wizard' = IF cloud THEN wizard ELSE [wizard EXCEPT ![p].host = j]
       /\ UNCHANGED serving /\ JobsOnly

\* createCloud has made the host and its token.
Created(j) ==
    /\ At(j, "creating")
    /\ OnlyJob(j, "binding")
    /\ wizard' = InWizard(j, LAMBDA w : [w EXCEPT !.host = j])
    /\ UNCHANGED serving /\ JobsOnly

\* The host listens; the share screen is stored and not yet sent.
Bound(j) ==
    /\ At(j, "binding")
    /\ OnlyJob(j, "storing")
    /\ serving' = serving \cup {j}
    /\ wizard' = InWizard(j, LAMBDA w : [w EXCEPT !.step = 5])
    /\ JobsOnly

\* An error is shown, unless the panel is gone; the host that listens goes on.
StartFails(j) ==
    /\ At(j, "creating") \/ At(j, "binding") \/ At(j, "storing")
    /\ OnlyJob(j, "done")
    /\ wizard' = InWizard(j, Shows)
    /\ UNCHANGED serving /\ JobsOnly

\* wireHostEvents: the slot is taken, whatever it holds.
WireHostEvents(host) == activeHost' = host

\* The code is stored and the session advertised; the callback gets the host
\* the panel holds by now.
HostReady(j) ==
    /\ At(j, "storing")
    /\ IsWizard(job[j].panel)
    /\ OnlyJob(j, "done")
    /\ wizard' = [wizard EXCEPT ![job[j].panel] = Shows(@)]
    /\ WireHostEvents(wizard[job[j].panel].host)
    /\ UNCHANGED <<opening, kind, form, tests, currentWizard, currentJoin, serving,
                   connected, activeClient>>

\* The panel was closed: sending the share screen throws before the callback.
HostUnheard(j) ==
    /\ At(j, "storing")
    /\ ~IsWizard(job[j].panel)
    /\ OnlyJob(j, "done")
    /\ UNCHANGED <<wizard, serving>> /\ JobsOnly

-----------------------------------------------------------------------------
(* The join panel. *)

IsForm(p) == kind[p] = "join"

Displayed(f) == [f EXCEPT !.shown = f.link]

\* sendStateUpdate: a webview that is not up misses it.
Sent(f) == IF f.up THEN Displayed(f) ELSE f

FormOnly == UNCHANGED <<opening, kind, wizard, tests, currentWizard, currentJoin, job,
                        serving, connected, activeHost, activeClient>>

OpensForm(p, link) ==
    /\ Fresh(p)
    /\ kind' = [kind EXCEPT ![p] = "join"]
    /\ form' = [form EXCEPT ![p] = [FreshForm EXCEPT !.pending = link, !.wanted = link]]
    /\ currentJoin' = p
    /\ UNCHANGED <<opening, wizard, tests, currentWizard, job, serving, connected,
                   activeHost, activeClient>>

JoinCommand(p) == currentJoin = None /\ OpensForm(p, None)

\* applyPrefill: kept for later while the webview was never ready.
Prefilled(f, link) ==
    IF ~f.ready THEN [f EXCEPT !.pending = link] ELSE Sent([f EXCEPT !.link = link])

\* A deep link the user has confirmed: a panel of its own, or the open one.
OpenLink(p, link) ==
    \/ currentJoin = None /\ OpensForm(p, link)
    \/ /\ currentJoin = p
       /\ form' = [form EXCEPT ![p] = [Prefilled(@, link) EXCEPT !.wanted = link]]
       /\ FormOnly

\* Slip: a webview that starts anew is not sent the state.
ReadiedOnce(f) ==
    LET g == [f EXCEPT !.ready = TRUE, !.up = TRUE]
    IN IF f.pending = None THEN g
       ELSE Sent([g EXCEPT !.link = f.pending, !.pending = None])

\* webview-ready: what was kept is applied, or the state is sent as it is.
Readied(f) ==
    LET g == [f EXCEPT !.ready = TRUE, !.up = TRUE]
    IN IF f.pending = None THEN Sent(g)
       ELSE Sent([g EXCEPT !.link = f.pending, !.pending = None])

WebviewReady(p) ==
    /\ IsForm(p)
    /\ ~form[p].up
    /\ form' = [form EXCEPT ![p] = Readied(@)]
    /\ FormOnly

\* The tab is hidden: its webview is discarded, the panel's flags stay.
HideForm(p) ==
    /\ IsForm(p)
    /\ form[p].up
    /\ form' = [form EXCEPT ![p] = [@ EXCEPT !.up = FALSE, !.shown = None]]
    /\ FormOnly

FormClosed(p) ==
    /\ kind' = [kind EXCEPT ![p] = "closed"]
    /\ form' = [form EXCEPT ![p] = FreshForm]
    /\ currentJoin' = None

CloseForm(p) ==
    /\ IsForm(p)
    /\ FormClosed(p)
    /\ UNCHANGED <<opening, wizard, tests, currentWizard, job, serving,
                   connected, activeHost, activeClient>>

\* The buttons to join and to connect again; the overlay that covers them comes
\* with the next render.
OffersJoin(f) == f.up

\* Among the checks of the fields, a cloud join needs the token of a deep link.
Accepted(f, mode) == mode = "cloud" => f.link # None

\* handleJoinConnect with fields that are accepted: by address, or through a relay
\* with the token of the link.
Connect(p, j, mode) ==
    /\ IsForm(p)
    /\ OffersJoin(form[p])
    /\ Accepted(form[p], mode)
    /\ Unused(j)
    /\ job' = [job EXCEPT ![j] = [stage |-> "dialing", panel |-> p, untested |-> FALSE]]
    /\ form' = [form EXCEPT ![p] = Sent([@ EXCEPT !.connecting = TRUE])]
    /\ UNCHANGED <<opening, kind, wizard, tests, currentWizard, currentJoin, serving,
                   connected, activeHost, activeClient>>

\* connect() resolves to true: the recent sessions and the code are saved next.
Joined(j) ==
    /\ At(j, "dialing")
    /\ OnlyJob(j, "saving")
    /\ connected' = connected \cup {j}
    /\ UNCHANGED <<opening, kind, wizard, form, tests, currentWizard, currentJoin,
                   serving, activeHost, activeClient>>

\* Slip: the error path forgets isConnecting.
ClearedNot(f) == Sent(f)

Cleared(f) == Sent([f EXCEPT !.connecting = FALSE])

\* Refused, unreachable, or the save failed after the client was seated.
JoinFails(j) ==
    /\ At(j, "dialing") \/ At(j, "saving")
    /\ OnlyJob(j, "done")
    /\ form' = IF IsForm(job[j].panel)
               THEN [form EXCEPT ![job[j].panel] = Cleared(@)] ELSE form
    /\ UNCHANGED <<opening, kind, wizard, tests, currentWizard, currentJoin, serving,
                   connected, activeHost, activeClient>>

\* The callback makes it the window's client, and the panel closes itself.
ClientReady(j) ==
    /\ At(j, "saving")
    /\ OnlyJob(j, "done")
    /\ activeClient' = j
    /\ IF IsForm(job[j].panel) THEN FormClosed(job[j].panel)
       ELSE UNCHANGED <<kind, form, currentJoin>>
    /\ UNCHANGED <<opening, wizard, tests, currentWizard, serving, connected,
                   activeHost>>

-----------------------------------------------------------------------------
(* The end of a session. *)

\* Slip: the wizard that is open stays.
HostEndedAlone ==
    /\ activeHost' = None
    /\ UNCHANGED <<kind, wizard, tests, currentWizard>>

\* session-ended of a host: its slot is emptied and the wizard that is open is
\* closed, so that no share screen outlives its session.
HostEnded ==
    /\ activeHost' = None
    /\ IF currentWizard = None THEN UNCHANGED <<kind, wizard, tests, currentWizard>>
       ELSE WizardClosed(currentWizard)

\* The sidebar's disconnect button stops the host and the client of the window.
Disconnect ==
    /\ activeHost # None \/ activeClient # None
    /\ serving' = serving \ {activeHost}
    /\ IF activeHost = None THEN UNCHANGED <<activeHost, kind, wizard, tests, currentWizard>>
       ELSE HostEnded
    /\ connected' = connected \ {activeClient}
    /\ activeClient' = None
    /\ UNCHANGED <<opening, form, currentJoin, job>>

\* A client loses its session for good; the slot still names it.
ClientEnds(j) ==
    /\ j \in connected
    /\ connected' = connected \ {j}
    /\ UNCHANGED <<opening, kind, wizard, form, tests, currentWizard, currentJoin, job,
                   serving, activeHost, activeClient>>

-----------------------------------------------------------------------------
WizardStep ==
    \/ HostCommand
    \/ \E p \in Panel :
          \/ WizardOpens(p) \/ WizardNext(p) \/ WizardBack(p) \/ EditUrl(p) \/ Test(p)
          \/ RevisitWizard(p) \/ CloseWizard(p)
          \/ \E mode \in {"lan", "cloud"} : SetMode(p, mode)
          \/ \E ok \in BOOLEAN : TestResult(p, ok)
          \/ \E j \in Job : Start(p, j)
    \/ \E j \in Job : Created(j) \/ Bound(j) \/ StartFails(j) \/ HostReady(j) \/ HostUnheard(j)

FormStep ==
    \/ \E p \in Panel :
          \/ JoinCommand(p) \/ WebviewReady(p) \/ HideForm(p) \/ CloseForm(p)
          \/ \E link \in Link : OpenLink(p, link)
          \/ \E j \in Job, mode \in {"lan", "cloud"} : Connect(p, j, mode)
    \/ \E j \in Job : Joined(j) \/ JoinFails(j) \/ ClientReady(j) \/ ClientEnds(j)

Next == WizardStep \/ FormStep \/ Disconnect

Spec == Init /\ [][Next]_vars

-----------------------------------------------------------------------------
(* Properties. *)

\* The share screen of the wizard the window knows is never stale: one of the
\* hosts this panel started is listening, whatever was clicked while they
\* started and whichever session was ended since (extension.ts, session-ended:
\* "prevents stale 'Session Active' state").
ShareScreenIsLive ==
    currentWizard # None /\ SharesSession(wizard[currentWizard])
        => \E j \in serving : job[j].panel = currentWizard

\* No cloud host is started from a wizard in which no test of the relay has
\* succeeded since its URL was last edited, whatever the way through the steps
\* (WizardPanel.ts, the gate on relayUrlReachable).
NoUntestedStart == \A j \in Job : ~job[j].untested

\* A webview that is up shows the deep link the user confirmed last, however
\* its confirmation, the load of the webview and the hiding of the tab fall
\* (JoinPanel.ts, pendingPrefill and webview-ready).
ConfirmedLinkShown ==
    \A p \in Panel : IsForm(p) /\ form[p].up => form[p].shown = form[p].wanted

\* A join panel says it is connecting only while one of its joins is under way:
\* a failure is shown and does not leave the overlay up (JoinPanel.ts, the
\* three error paths of handleJoinConnect).
OverlayHasJoin ==
    \A p \in Panel : IsForm(p) /\ form[p].connecting
        => \E j \in Job : job[j].panel = p /\ job[j].stage \in {"dialing", "saving"}

=============================================================================
