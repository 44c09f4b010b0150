--------------------------- MODULE SessionStartProofs ---------------------------
(***************************************************************************)
(* The safety of getting into a session and out of it, for any number of     *)
(* panels, starts, joins and deep links.  What a wizard offers goes by what   *)
(* it shows, so the invariant relates what is shown to what is stored; what   *)
(* a panel says of a start or a join is related to the call it speaks of.     *)
(***************************************************************************)
EXTENDS SessionStart, TLAPS

Wizards == [step : 1 .. 5, shown : 1 .. 5, mode : {"lan", "cloud"},
            reachable : {"unknown", "yes", "no"}, confirmed : BOOLEAN, host : Job \cup {None}]

Forms == [ready : BOOLEAN, up : BOOLEAN, connecting : BOOLEAN,
          pending : Link \cup {None}, link : Link \cup {None},
          shown : Link \cup {None}, wanted : Link \cup {None}]

Jobs == [stage : Busy \cup {"unused", "done"}, panel : Panel \cup {None}, untested : BOOLEAN]

\* A step that was stored and not sent is the share screen.
ShownFollows(w) == w.shown = w.step \/ w.step = 5

\* A cloud wizard is past the network step, in store or on screen, only with a
\* relay that was tested; a positive verdict is one on the URL as it is.
Tested(w) ==
    /\ ShownFollows(w)
    /\ w.reachable = "yes" => w.confirmed
    /\ w.mode = "cloud" /\ (w.step = 4 \/ w.shown = 4) => w.confirmed

Sound(w) == w \in Wizards /\ Tested(w)

\* The link confirmed last is kept back until the webview was up once; from then
\* on it is in the state, and a webview that is up shows that.
LinkKept(f) ==
    /\ IF f.ready THEN f.pending = None /\ f.link = f.wanted
                  ELSE f.pending = f.wanted /\ f.link = None
    /\ f.up => f.ready /\ f.shown = f.link

Kept(f, b) == f \in Forms /\ LinkKept(f) /\ f.connecting = b

\* The share screen of the wizard in the slot has a host, sent or not.
StoredIsLive ==
    currentWizard # None /\ wizard[currentWizard].step = 5
        => \E j \in serving : job[j].panel = currentWizard

\* A host that listens was started, and whoever was started has a panel.
Started ==
    /\ \A j \in serving : job[j].stage # "unused"
    /\ \A j \in Job : job[j].stage # "unused" => job[j].panel \in Panel

Types ==
    /\ opening \in 0 .. MaxOpening
    /\ kind \in [Panel -> {"unused", "wizard", "join", "closed"}]
    /\ wizard \in [Panel -> Wizards]
    /\ form \in [Panel -> Forms]
    /\ tests \in [Panel -> 0 .. MaxTests]
    /\ currentWizard \in Panel \cup {None} /\ currentJoin \in Panel \cup {None}
    /\ job \in [Job -> Jobs]
    /\ serving \subseteq Job /\ connected \subseteq Job
    /\ activeHost \in Job \cup {None} /\ activeClient \in Job \cup {None}

SessionInv ==
    /\ Types
    /\ \A p \in Panel : Tested(wizard[p])
    /\ \A p \in Panel : LinkKept(form[p])
    /\ StoredIsLive
    /\ Started
    /\ NoUntestedStart
    /\ OverlayHasJoin

-----------------------------------------------------------------------------
(* What a click, a verdict or a message makes of one panel *)

LEMMA Showing ==
    ASSUME NEW w \in Wizards, w.reachable = "yes" => w.confirmed,
           w.mode = "cloud" /\ w.step = 4 => w.confirmed
    PROVE  Sound(Shows(w)) /\ Shows(w).step = w.step
  BY DEF Sound, Wizards, Tested, ShownFollows, Shows

LEMMA Advancing ==
    ASSUME NEW w \in Wizards, Tested(w), OffersNext(w)
    PROVE  /\ Sound(Shows(Advanced(w)))
           /\ w.step # 5 => Shows(Advanced(w)).step # 5
<1>1. CASE w.step = 1
  <2>1. Advanced(w) = [w EXCEPT !.step = 2]
    BY <1>1 DEF Advanced, NextNames
  <2>2. Advanced(w) \in Wizards
    BY <2>1 DEF Wizards
  <2>3. QED
    BY <2>1, <2>2, Showing DEF Tested, Wizards
<1>2. CASE w.step = 2
  <2>1. Advanced(w) = [w EXCEPT !.step = 3]
    BY <1>2 DEF Advanced, NextMode
  <2>2. Advanced(w) \in Wizards
    BY <2>1 DEF Wizards
  <2>3. QED
    BY <2>1, <2>2, Showing DEF Tested, Wizards
<1>3. CASE w.step = 3 /\ ~(w.mode = "cloud" /\ w.reachable # "yes")
  <2>1. Advanced(w) = [w EXCEPT !.step = 4]
    BY <1>3 DEF Advanced, NextNetwork
  <2>2. Advanced(w) \in Wizards
    BY <2>1 DEF Wizards
  <2>3. QED
    BY <1>3, <2>1, <2>2, Showing DEF Tested, Wizards
<1>4. CASE w.step \in 4 .. 5 \/ (w.step = 3 /\ w.mode = "cloud" /\ w.reachable # "yes")
  <2>1. Advanced(w) = w
    BY <1>4 DEF Advanced, NextNetwork
  <2>2. QED
    BY <2>1, Showing DEF Tested
<1>5. QED
  BY <1>1, <1>2, <1>3, <1>4 DEF Wizards

LEMMA GoingBack ==
    ASSUME NEW w \in Wizards, Tested(w), w.step \in 2 .. 4
    PROVE  /\ Sound(Shows(Retreated(w))) /\ Shows(Retreated(w)).step # 5
<1>1. Retreated(w) \in Wizards
  BY DEF Retreated, Wizards
<1>2. QED
  BY <1>1, Showing DEF Retreated, Tested, Wizards

LEMMA ChoosingMode ==
    ASSUME NEW w \in Wizards, Tested(w), NEW mode \in {"lan", "cloud"}, OffersModes(w)
    PROVE  /\ Sound(Shows([w EXCEPT !.mode = mode]))
           /\ Shows([w EXCEPT !.mode = mode]).step = w.step
<1>1. [w EXCEPT !.mode = mode] \in Wizards
  BY DEF Wizards
<1>2. w.step # 4
  BY DEF Tested, ShownFollows, OffersModes
<1>3. QED
  BY <1>1, <1>2, Showing DEF Tested, Wizards

LEMMA Editing ==
    ASSUME NEW w \in Wizards, Tested(w), OffersRelay(w)
    PROVE  Sound(Edited(w)) /\ Edited(w).step = w.step
<1>1. [w EXCEPT !.reachable = "unknown", !.confirmed = FALSE] \in Wizards
  BY DEF Wizards
<1>2. w.step # 4
  BY DEF Tested, ShownFollows, OffersRelay
<1>3. QED
  BY <1>1, <1>2, Showing DEF Wizards, Edited

LEMMA Judging ==
    ASSUME NEW w \in Wizards, Tested(w), NEW ok \in BOOLEAN
    PROVE  Sound(Verdict(w, ok)) /\ Verdict(w, ok).step = w.step
<1>1. PICK v : v = [w EXCEPT !.reachable = IF ok THEN "yes" ELSE "no", !.confirmed = @ \/ ok]
  OBVIOUS
<1>2. v \in Wizards /\ v.step = w.step /\ v.mode = w.mode
  BY <1>1 DEF Wizards
<1>3. CASE ok
  <2>1. v.confirmed
    BY <1>1, <1>3 DEF Wizards
  <2>2. QED
    BY <1>1, <1>2, <2>1, Showing DEF Verdict
<1>4. CASE ~ok
  <2>1. v.reachable = "no" /\ (v.confirmed <=> w.confirmed)
    BY <1>1, <1>4 DEF Wizards
  <2>2. QED
    BY <1>1, <1>2, <2>1, Showing DEF Tested, Verdict
<1>5. QED
  BY <1>3, <1>4

LEMMA Storing ==
    ASSUME NEW w \in Wizards, Tested(w)
    PROVE  /\ \A j \in Job : Sound([w EXCEPT !.host = j]) /\ [w EXCEPT !.host = j].step = w.step
           /\ Sound([w EXCEPT !.step = 5])
  BY DEF Sound, Wizards, Tested, ShownFollows

LEMMA FreshWizardTested == Sound(FreshWizard) /\ FreshWizard.step = 1
  BY DEF Sound, FreshWizard, Wizards, Tested, ShownFollows

LEMMA Sending ==
    ASSUME NEW f \in Forms, f.ready, f.pending = None, f.link = f.wanted
    PROVE  Kept(Sent(f), f.connecting)
<1>1. CASE f.up
  BY <1>1 DEF Forms, Kept, LinkKept, Sent, Displayed
<1>2. CASE ~f.up
  BY <1>2 DEF Kept, LinkKept, Sent
<1>3. QED
  BY <1>1, <1>2

LEMMA Busying ==
    ASSUME NEW f \in Forms, LinkKept(f), NEW b \in BOOLEAN
    PROVE  Kept(Sent([f EXCEPT !.connecting = b]), b)
<1>1. PICK g : g = [f EXCEPT !.connecting = b]
  OBVIOUS
<1>2. /\ g \in Forms /\ g.connecting = b /\ g.ready = f.ready /\ g.up = f.up
      /\ g.pending = f.pending /\ g.link = f.link /\ g.wanted = f.wanted /\ g.shown = f.shown
  BY <1>1 DEF Forms
<1>3. CASE f.ready
  BY <1>1, <1>2, <1>3, Sending DEF LinkKept
<1>4. CASE ~f.ready
  BY <1>1, <1>2, <1>4 DEF Kept, LinkKept, Sent
<1>5. QED
  BY <1>3, <1>4

LEMMA Prefilling ==
    ASSUME NEW f \in Forms, LinkKept(f), NEW link \in Link
    PROVE  Kept([Prefilled(f, link) EXCEPT !.wanted = link], f.connecting)
<1>1. CASE ~f.ready
  BY <1>1 DEF Forms, Kept, LinkKept, Prefilled
<1>2. CASE f.ready /\ f.up
  BY <1>2 DEF Forms, Kept, LinkKept, Prefilled, Sent, Displayed
<1>3. CASE f.ready /\ ~f.up
  BY <1>3 DEF Forms, Kept, LinkKept, Prefilled, Sent
<1>4. QED
  BY <1>1, <1>2, <1>3

LEMMA Readying ==
    ASSUME NEW f \in Forms, LinkKept(f)
    PROVE  Kept(Readied(f), f.connecting)
<1>1. PICK g : g = [f EXCEPT !.ready = TRUE, !.up = TRUE]
  OBVIOUS
<1>2. /\ g \in Forms /\ g.connecting = f.connecting /\ g.ready
      /\ g.pending = f.pending /\ g.link = f.link /\ g.wanted = f.wanted
  BY <1>1 DEF Forms
<1>3. CASE f.pending = None
  <2>1. f.link = f.wanted
    BY <1>3 DEF LinkKept
  <2>2. QED
    BY <1>1, <1>2, <1>3, <2>1, Sending DEF Readied
<1>4. CASE f.pending # None
  <2>1. f.pending = f.wanted
    BY <1>4 DEF LinkKept
  <2>2. PICK h : h = [g EXCEPT !.link = f.pending, !.pending = None]
    OBVIOUS
  <2>3. /\ h \in Forms /\ h.connecting = f.connecting /\ h.ready
        /\ h.pending = None /\ h.link = h.wanted
    BY <1>2, <2>1, <2>2 DEF Forms
  <2>4. Readied(f) = Sent(h)
    BY <1>1, <1>4, <2>2 DEF Readied
  <2>5. QED
    BY <2>3, <2>4, Sending
<1>5. QED
  BY <1>3, <1>4

LEMMA Hiding ==
    ASSUME NEW f \in Forms, LinkKept(f)
    PROVE  Kept([f EXCEPT !.up = FALSE, !.shown = None], f.connecting)
  BY DEF Forms, Kept, LinkKept

LEMMA FreshForms ==
    ASSUME NEW link \in Link \cup {None}
    PROVE  LET f == [FreshForm EXCEPT !.pending = link, !.wanted = link]
           IN Kept(f, FALSE)
  BY DEF FreshForm, Forms, Kept, LinkKept

-----------------------------------------------------------------------------
(* Steps that touch one panel only *)

LEMMA OneWizard ==
    ASSUME SessionInv, NEW p \in Panel, NEW v, Sound(v), v.step = 5 => wizard[p].step = 5,
           wizard' = [wizard EXCEPT ![p] = v], tests' \in [Panel -> 0 .. MaxTests], WizardOnly
    PROVE  SessionInv'
<1> USE DEF SessionInv, WizardOnly
<1>1. Types'
  BY DEF Types, Sound
<1>2. \A q \in Panel : Tested(wizard[q])'
  BY DEF Types, Sound, Tested, ShownFollows
<1>3. StoredIsLive'
  BY DEF Types, StoredIsLive
<1>4. (\A q \in Panel : LinkKept(form[q])') /\ Started' /\ NoUntestedStart' /\ OverlayHasJoin'
  BY DEF LinkKept, Started, NoUntestedStart, OverlayHasJoin, IsForm
<1>5. QED
  BY <1>1, <1>2, <1>3, <1>4

LEMMA OneForm ==
    ASSUME SessionInv, NEW p \in Panel, NEW g, Kept(g, form[p].connecting),
           form' = [form EXCEPT ![p] = g], FormOnly
    PROVE  SessionInv'
<1> USE DEF SessionInv, FormOnly
<1>1. Types'
  BY DEF Types, Kept
<1>2. \A q \in Panel : LinkKept(form[q])'
  BY DEF Types, Kept, LinkKept
<1>3. OverlayHasJoin'
  BY DEF Types, Kept, OverlayHasJoin, IsForm
<1>4. /\ \A q \in Panel : Tested(wizard[q])'
      /\ StoredIsLive' /\ Started' /\ NoUntestedStart'
  BY DEF Tested, ShownFollows, StoredIsLive, Started, NoUntestedStart
<1>5. QED
  BY <1>1, <1>2, <1>3, <1>4

LEMMA WizardClicks ==
    ASSUME SessionInv, NEW p \in Panel,
           \/ WizardNext(p) \/ WizardBack(p) \/ EditUrl(p) \/ RevisitWizard(p)
           \/ \E mode \in {"lan", "cloud"} : SetMode(p, mode)
           \/ \E ok \in BOOLEAN : TestResult(p, ok)
    PROVE  SessionInv'
<1> USE DEF SessionInv
<1>1. wizard[p] \in Wizards /\ Tested(wizard[p]) /\ tests \in [Panel -> 0 .. MaxTests]
      /\ MaxTests \in Nat
  BY ConstantsAssumption DEF Types
<1>2. CASE WizardNext(p)
  BY <1>1, <1>2, Advancing, OneWizard DEF WizardNext
<1>3. CASE WizardBack(p)
  BY <1>1, <1>3, GoingBack, OneWizard DEF WizardBack
<1>4. CASE EditUrl(p)
  BY <1>1, <1>4, Editing, OneWizard DEF EditUrl
<1>5. CASE RevisitWizard(p)
  <2>1. tests' \in [Panel -> 0 .. MaxTests]
    BY <1>1, <1>5 DEF RevisitWizard
  <2>2. Sound(Shows(wizard[p])) /\ Shows(wizard[p]).step = wizard[p].step
    BY <1>1, Showing DEF Tested
  <2>3. QED
    BY <1>1, <1>5, <2>1, <2>2, OneWizard DEF RevisitWizard
<1>6. ASSUME NEW mode \in {"lan", "cloud"}, SetMode(p, mode)
      PROVE  SessionInv'
  BY <1>1, <1>6, ChoosingMode, OneWizard DEF SetMode
<1>7. ASSUME NEW ok \in BOOLEAN, TestResult(p, ok)
      PROVE  SessionInv'
  <2>1. tests' \in [Panel -> 0 .. MaxTests]
    BY <1>1, <1>7 DEF TestResult
  <2>2. QED
    BY <1>1, <1>7, <2>1, Judging, OneWizard DEF TestResult
<1>8. QED
  BY <1>2, <1>3, <1>4, <1>5, <1>6, <1>7

LEMMA FormMessages ==
    ASSUME SessionInv, NEW p \in Panel,
           \/ WebviewReady(p) \/ HideForm(p)
           \/ \E link \in Link : OpenLink(p, link) /\ currentJoin = p /\ currentJoin # None
    PROVE  SessionInv'
<1>1. form[p] \in Forms /\ LinkKept(form[p])
  BY DEF SessionInv, Types
<1>2. CASE WebviewReady(p)
  BY <1>1, <1>2, Readying, OneForm DEF WebviewReady
<1>3. CASE HideForm(p)
  BY <1>1, <1>3, Hiding, OneForm DEF HideForm
<1>4. ASSUME NEW link \in Link, OpenLink(p, link), currentJoin = p, currentJoin # None
      PROVE  SessionInv'
  BY <1>1, <1>4, Prefilling, OneForm DEF OpenLink
<1>5. QED
  BY <1>2, <1>3, <1>4

-----------------------------------------------------------------------------
(* Panels that open and close *)

LEMMA HostCommandStep ==
    ASSUME SessionInv, HostCommand
    PROVE  SessionInv'
<1> USE DEF SessionInv, HostCommand
<1>1. Types'
  BY ConstantsAssumption DEF Types
<1>2. /\ \A q \in Panel : Tested(wizard[q])' /\ LinkKept(form[q])'
      /\ StoredIsLive' /\ Started' /\ NoUntestedStart' /\ OverlayHasJoin'
  BY DEF Tested, ShownFollows, LinkKept, StoredIsLive, Started, NoUntestedStart,
         OverlayHasJoin, IsForm
<1>3. QED
  BY <1>1, <1>2

LEMMA WizardOpensStep ==
    ASSUME SessionInv, NEW p \in Panel, WizardOpens(p)
    PROVE  SessionInv'
<1> USE DEF SessionInv, WizardOpens
<1>1. Types'
  BY FreshWizardTested, ConstantsAssumption DEF Types, Sound
<1>2. (\A q \in Panel : Tested(wizard[q])') /\ StoredIsLive'
  BY FreshWizardTested DEF Types, Sound, Tested, ShownFollows, StoredIsLive
<1>3. OverlayHasJoin'
  BY DEF Types, OverlayHasJoin, IsForm
<1>4. (\A q \in Panel : LinkKept(form[q])') /\ Started' /\ NoUntestedStart'
  BY DEF LinkKept, Started, NoUntestedStart
<1>5. QED
  BY <1>1, <1>2, <1>3, <1>4

\* However a wizard is closed, the slot is empty afterwards.
LEMMA WizardCloses ==
    ASSUME SessionInv, NEW p \in Panel, WizardClosed(p),
           UNCHANGED <<opening, form, currentJoin, job>>,
           serving' \subseteq serving, connected' \subseteq connected,
           activeHost' \in Job \cup {None}, activeClient' \in Job \cup {None}
    PROVE  SessionInv'
<1> USE DEF SessionInv, WizardClosed
<1>1. Types'
  BY FreshWizardTested, ConstantsAssumption DEF Types, Sound
<1>2. \A q \in Panel : Tested(wizard[q])'
  BY FreshWizardTested DEF Types, Sound, Tested, ShownFollows
<1>3. StoredIsLive' /\ Started'
  BY DEF StoredIsLive, Started
<1>4. OverlayHasJoin'
  BY DEF Types, OverlayHasJoin, IsForm
<1>5. (\A q \in Panel : LinkKept(form[q])') /\ NoUntestedStart'
  BY DEF LinkKept, NoUntestedStart
<1>6. QED
  BY <1>1, <1>2, <1>3, <1>4, <1>5

LEMMA OpensFormStep ==
    ASSUME SessionInv, NEW p \in Panel, NEW link \in Link \cup {None}, OpensForm(p, link)
    PROVE  SessionInv'
<1> USE DEF SessionInv, OpensForm
<1>1. Kept(form'[p], FALSE) /\ form' = [form EXCEPT ![p] = form'[p]]
  BY FreshForms DEF Types
<1>2. Types'
  BY <1>1 DEF Types, Kept
<1>3. \A q \in Panel : LinkKept(form[q])'
  BY <1>1 DEF Types, Kept, LinkKept
<1>4. OverlayHasJoin'
  BY <1>1 DEF Types, Kept, OverlayHasJoin, IsForm
<1>5. /\ \A q \in Panel : Tested(wizard[q])'
      /\ StoredIsLive' /\ Started' /\ NoUntestedStart'
  BY DEF Tested, ShownFollows, StoredIsLive, Started, NoUntestedStart
<1>6. QED
  BY <1>2, <1>3, <1>4, <1>5

\* A form that closes says nothing any more.
LEMMA FormCloses ==
    ASSUME SessionInv, NEW p \in Panel, FormClosed(p),
           UNCHANGED <<opening, wizard, tests, currentWizard, serving, connected, activeHost>>,
           activeClient' \in Job \cup {None}, job' \in [Job -> Jobs],
           \A j \in Job : /\ job'[j].panel = job[j].panel
                          /\ job'[j].untested = job[j].untested
                          /\ job'[j].stage = "unused" <=> job[j].stage = "unused"
                          /\ job'[j].stage # job[j].stage => job[j].panel = p
    PROVE  SessionInv'
<1> USE DEF SessionInv, FormClosed
<1>1. Kept(FreshForm, FALSE)
  BY DEF Kept, Forms, FreshForm, LinkKept
<1>2. Types'
  BY <1>1 DEF Types, Kept
<1>3. \A q \in Panel : LinkKept(form[q])'
  BY <1>1 DEF Types, Kept, LinkKept
<1>4. OverlayHasJoin'
  BY <1>1 DEF Types, Kept, OverlayHasJoin, IsForm
<1>5. /\ \A q \in Panel : Tested(wizard[q])'
      /\ StoredIsLive' /\ Started' /\ NoUntestedStart'
  BY DEF Types, Tested, ShownFollows, StoredIsLive, Started, NoUntestedStart
<1>6. QED
  BY <1>2, <1>3, <1>4, <1>5

-----------------------------------------------------------------------------
(* Starts and joins *)

\* A call that goes on keeps its panel and what its start was tested by.
LEMMA JobMoves ==
    ASSUME SessionInv, NEW j \in Job, NEW stage \in Busy \cup {"done"}, OnlyJob(j, stage)
    PROVE  /\ job' \in [Job -> Jobs]
           /\ job'[j].stage = stage
           /\ \A k \in Job \ {j} : job'[k] = job[k]
           /\ \A k \in Job : job'[k].panel = job[k].panel /\ job'[k].untested = job[k].untested
<1>1. job \in [Job -> Jobs] /\ job[j] \in Jobs
  BY DEF SessionInv, Types
<1>2. [job[j] EXCEPT !.stage = stage] \in Jobs
  BY <1>1 DEF Jobs
<1>3. job' = [job EXCEPT ![j] = [job[j] EXCEPT !.stage = stage]]
  BY DEF OnlyJob
<1>4. job' \in [Job -> Jobs] /\ (\A k \in Job \ {j} : job'[k] = job[k])
      /\ job'[j] = [job[j] EXCEPT !.stage = stage]
  BY <1>1, <1>2, <1>3
<1>5. /\ job'[j].stage = stage /\ job'[j].panel = job[j].panel
      /\ job'[j].untested = job[j].untested
  BY <1>1, <1>4 DEF Jobs
<1>6. QED
  BY <1>4, <1>5

\* A start goes on, or ends: the panel is told, unless it was closed meanwhile.
LEMMA StartMoves ==
    ASSUME SessionInv, NEW j \in Job, NEW stage \in Busy \cup {"done"}, OnlyJob(j, stage),
           job[j].stage \in {"creating", "binding", "storing"},
           wizard' \in [Panel -> Wizards], \A p \in Panel : Tested(wizard'[p]),
           serving' \in {serving, serving \cup {j}},
           \A p \in Panel : wizard'[p].step = 5 =>
              wizard[p].step = 5 \/ (job[j].panel = p /\ j \in serving'),
           UNCHANGED <<opening, kind, form, tests, currentWizard, currentJoin, connected,
                       activeClient>>,
           activeHost' \in Job \cup {None}
    PROVE  SessionInv'
<1> USE DEF SessionInv
<1>1. /\ job' \in [Job -> Jobs] /\ job'[j].stage = stage
      /\ \A k \in Job \ {j} : job'[k] = job[k]
      /\ \A k \in Job : job'[k].panel = job[k].panel /\ job'[k].untested = job[k].untested
  BY JobMoves
<1>2. Types'
  BY <1>1 DEF Types
<1>3. (\A q \in Panel : Tested(wizard[q])') /\ (\A q \in Panel : LinkKept(form[q])')
  BY DEF Tested, ShownFollows, LinkKept
<1>4. StoredIsLive'
  BY <1>1 DEF Types, StoredIsLive
<1>5. Started' /\ NoUntestedStart'
  BY <1>1 DEF Types, Started, NoUntestedStart, Busy
<1>6. OverlayHasJoin'
  BY <1>1 DEF OverlayHasJoin, IsForm
<1>7. QED
  BY <1>2, <1>3, <1>4, <1>5, <1>6

\* Start is offered where a cloud wizard has been tested.
LEMMA StartStep ==
    ASSUME SessionInv, NEW p \in Panel, NEW j \in Job, Start(p, j)
    PROVE  SessionInv'
<1> USE DEF SessionInv
<1>1. /\ wizard[p] \in Wizards /\ Tested(wizard[p]) /\ wizard \in [Panel -> Wizards]
      /\ job \in [Job -> Jobs]
  BY DEF Types
<1>2. wizard[p].shown = 4 /\ job[j].stage = "unused"
      /\ (wizard[p].mode = "cloud" => wizard[p].confirmed)
  BY <1>1 DEF Start, OffersStart, Unused, Tested
<1>3. PICK new \in Jobs : /\ new.stage \in {"creating", "binding"} /\ new.panel = p
                          /\ ~new.untested /\ job' = [job EXCEPT ![j] = new]
  <2>1. CASE wizard[p].mode = "cloud"
    <3>1. PICK new : new = [stage |-> "creating", panel |-> p, untested |-> FALSE]
      OBVIOUS
    <3>2. new \in Jobs
      BY <3>1 DEF Jobs, Busy
    <3>3. job' = [job EXCEPT ![j] = new]
      BY <1>2, <2>1, <3>1 DEF Start
    <3>4. QED
      BY <3>1, <3>2, <3>3
  <2>2. CASE wizard[p].mode # "cloud"
    <3>1. PICK new : new = [stage |-> "binding", panel |-> p, untested |-> FALSE]
      OBVIOUS
    <3>2. new \in Jobs
      BY <3>1 DEF Jobs, Busy
    <3>3. job' = [job EXCEPT ![j] = new]
      BY <2>2, <3>1 DEF Start
    <3>4. QED
      BY <3>1, <3>2, <3>3
  <2>3. QED
    BY <2>1, <2>2
<1>4. /\ wizard' \in [Panel -> Wizards] /\ \A q \in Panel : Tested(wizard'[q])
      /\ \A q \in Panel : wizard'[q].step = wizard[q].step
  <2>1. CASE wizard[p].mode = "cloud"
    BY <1>1, <2>1 DEF Start
  <2>2. CASE wizard[p].mode # "cloud"
    <3>1. wizard' = [wizard EXCEPT ![p] = [wizard[p] EXCEPT !.host = j]]
      BY <2>2 DEF Start
    <3>2. /\ Sound([wizard[p] EXCEPT !.host = j])
          /\ [wizard[p] EXCEPT !.host = j].step = wizard[p].step
      BY <1>1, Storing
    <3>3. QED
      BY <1>1, <3>1, <3>2 DEF Sound
  <2>3. QED
    BY <2>1, <2>2
<1>5. UNCHANGED <<opening, kind, form, tests, currentWizard, currentJoin, serving, connected,
                  activeHost, activeClient>>
  BY DEF Start, JobsOnly
<1>6. Types'
  BY <1>1, <1>3, <1>4, <1>5 DEF Types
<1>7. (\A q \in Panel : Tested(wizard[q])') /\ (\A q \in Panel : LinkKept(form[q])')
  BY <1>4, <1>5 DEF Tested, ShownFollows, LinkKept
<1>8. j \notin serving
  BY <1>2 DEF Started
<1>9. StoredIsLive' /\ Started'
  BY <1>1, <1>3, <1>4, <1>5, <1>8 DEF Types, StoredIsLive, Started
<1>10. NoUntestedStart' /\ OverlayHasJoin'
  BY <1>1, <1>2, <1>3, <1>5 DEF NoUntestedStart, OverlayHasJoin, IsForm
<1>11. QED
  BY <1>6, <1>7, <1>9, <1>10

LEMMA StartProgress ==
    ASSUME SessionInv, NEW j \in Job,
           Created(j) \/ Bound(j) \/ StartFails(j) \/ HostReady(j) \/ HostUnheard(j)
    PROVE  SessionInv'
<1> USE DEF SessionInv
<1>1. /\ wizard \in [Panel -> Wizards] /\ \A p \in Panel : Tested(wizard[p])
      /\ activeHost \in Job \cup {None}
      /\ kind \in [Panel -> {"unused", "wizard", "join", "closed"}]
      /\ job[j].panel \in Panel \cup {None}
      /\ \A p \in Panel : wizard[p].host \in Job \cup {None}
  BY DEF Types, Wizards, Jobs
<1>2. \A p \in Panel : Sound(Shows(wizard[p])) /\ Shows(wizard[p]).step = wizard[p].step
  BY <1>1, Showing DEF Tested
<1>3. \A p \in Panel : /\ Sound([wizard[p] EXCEPT !.host = j])
                       /\ [wizard[p] EXCEPT !.host = j].step = wizard[p].step
                       /\ Sound([wizard[p] EXCEPT !.step = 5])
  BY <1>1, Storing
<1>4. CASE Created(j)
  BY <1>1, <1>3, <1>4, StartMoves DEF Created, At, InWizard, JobsOnly, Sound, Busy
<1>5. CASE Bound(j)
  BY <1>1, <1>3, <1>5, StartMoves DEF Bound, At, InWizard, JobsOnly, Sound, Busy
<1>6. CASE StartFails(j)
  BY <1>1, <1>2, <1>6, StartMoves DEF StartFails, At, InWizard, JobsOnly, Sound, Busy
<1>7. CASE HostReady(j)
  BY <1>1, <1>2, <1>7, StartMoves DEF HostReady, At, WireHostEvents, Started, Sound, Busy
<1>8. CASE HostUnheard(j)
  BY <1>1, <1>8, StartMoves DEF HostUnheard, At, JobsOnly, Busy
<1>9. QED
  BY <1>4, <1>5, <1>6, <1>7, <1>8

LEMMA TestStep ==
    ASSUME SessionInv, NEW p \in Panel, Test(p)
    PROVE  SessionInv'
<1> USE DEF SessionInv, Test, WizardOnly
<1>1. Types'
  BY ConstantsAssumption DEF Types
<1>2. /\ \A q \in Panel : Tested(wizard[q])' /\ LinkKept(form[q])'
      /\ StoredIsLive' /\ Started' /\ NoUntestedStart' /\ OverlayHasJoin'
  BY DEF Tested, ShownFollows, LinkKept, StoredIsLive, Started, NoUntestedStart,
         OverlayHasJoin, IsForm
<1>3. QED
  BY <1>1, <1>2

LEMMA ConnectStep ==
    ASSUME SessionInv, NEW p \in Panel, NEW j \in Job, NEW mode \in {"lan", "cloud"},
           Connect(p, j, mode)
    PROVE  SessionInv'
<1> USE DEF SessionInv
<1>1. form[p] \in Forms /\ LinkKept(form[p]) /\ job \in [Job -> Jobs] /\ form \in [Panel -> Forms]
  BY DEF Types
<1>2. PICK g : g = Sent([form[p] EXCEPT !.connecting = TRUE])
  OBVIOUS
<1>3. Kept(g, TRUE) /\ form' = [form EXCEPT ![p] = g]
  BY <1>1, <1>2, Busying DEF Connect
<1>4. PICK new : new = [stage |-> "dialing", panel |-> p, untested |-> FALSE]
  OBVIOUS
<1>5. /\ new \in Jobs /\ job' = [job EXCEPT ![j] = new] /\ job[j].stage = "unused"
      /\ UNCHANGED <<opening, kind, wizard, tests, currentWizard, currentJoin, serving,
                     connected, activeHost, activeClient>>
  BY <1>4 DEF Jobs, Busy, Connect, Unused
<1>6. Types'
  BY <1>1, <1>3, <1>5 DEF Types, Kept
<1>7. (\A q \in Panel : Tested(wizard[q])') /\ (\A q \in Panel : LinkKept(form[q])')
  BY <1>1, <1>3, <1>5 DEF Tested, ShownFollows, Kept, LinkKept
<1>8. StoredIsLive' /\ Started' /\ NoUntestedStart'
  BY <1>1, <1>4, <1>5 DEF Types, StoredIsLive, Started, NoUntestedStart
<1>9. OverlayHasJoin'
  BY <1>1, <1>3, <1>4, <1>5 DEF OverlayHasJoin, IsForm
<1>10. QED
  BY <1>6, <1>7, <1>8, <1>9

LEMMA JoinedStep ==
    ASSUME SessionInv, NEW j \in Job, Joined(j)
    PROVE  SessionInv'
<1> USE DEF SessionInv, Joined
<1>1. /\ job' \in [Job -> Jobs] /\ job'[j].stage = "saving" /\ job[j].stage = "dialing"
      /\ \A k \in Job \ {j} : job'[k] = job[k]
      /\ \A k \in Job : job'[k].panel = job[k].panel /\ job'[k].untested = job[k].untested
  BY JobMoves DEF At, Busy
<1>2. Types'
  BY <1>1 DEF Types
<1>3. (\A q \in Panel : Tested(wizard[q])') /\ (\A q \in Panel : LinkKept(form[q])')
  BY DEF Tested, ShownFollows, LinkKept
<1>4. StoredIsLive' /\ Started' /\ NoUntestedStart'
  BY <1>1 DEF Types, StoredIsLive, Started, NoUntestedStart
<1>5. OverlayHasJoin'
  BY <1>1 DEF OverlayHasJoin, IsForm
<1>6. QED
  BY <1>2, <1>3, <1>4, <1>5

\* The form of a join that fails is no longer connecting.
LEMMA JoinFailsStep ==
    ASSUME SessionInv, NEW j \in Job, JoinFails(j)
    PROVE  SessionInv'
<1> USE DEF SessionInv
<1>1. /\ job' \in [Job -> Jobs] /\ job'[j].stage = "done" /\ job[j].stage \in {"dialing", "saving"}
      /\ \A k \in Job \ {j} : job'[k] = job[k]
      /\ \A k \in Job : job'[k].panel = job[k].panel /\ job'[k].untested = job[k].untested
  BY JobMoves DEF JoinFails, At
<1>2. PICK p \in Panel : p = job[j].panel
  BY <1>1 DEF Started
<1>3. form[p] \in Forms /\ LinkKept(form[p]) /\ form \in [Panel -> Forms]
  BY DEF Types
<1>4. /\ UNCHANGED <<opening, kind, wizard, tests, currentWizard, currentJoin, serving,
                     connected, activeHost, activeClient>>
      /\ form' = IF IsForm(p) THEN [form EXCEPT ![p] = Cleared(form[p])] ELSE form
  BY <1>2 DEF JoinFails
<1>5. Kept(Cleared(form[p]), FALSE)
  BY <1>3, Busying DEF Cleared
<1>6. /\ form' \in [Panel -> Forms] /\ \A q \in Panel : LinkKept(form'[q])
      /\ \A q \in Panel \ {p} : form'[q] = form[q]
      /\ IsForm(p) => ~form'[p].connecting
  BY <1>3, <1>4, <1>5 DEF Kept
<1>7. Types'
  BY <1>1, <1>4, <1>6 DEF Types
<1>8. (\A q \in Panel : Tested(wizard[q])') /\ (\A q \in Panel : LinkKept(form[q])')
  BY <1>4, <1>6 DEF Tested, ShownFollows, LinkKept
<1>9. StoredIsLive' /\ Started' /\ NoUntestedStart'
  BY <1>1, <1>4 DEF Types, StoredIsLive, Started, NoUntestedStart
<1>10. OverlayHasJoin'
  BY <1>1, <1>2, <1>4, <1>6 DEF OverlayHasJoin, IsForm
<1>11. QED
  BY <1>7, <1>8, <1>9, <1>10

LEMMA ClientReadyStep ==
    ASSUME SessionInv, NEW j \in Job, ClientReady(j)
    PROVE  SessionInv'
<1> USE DEF SessionInv
<1>1. /\ job' \in [Job -> Jobs] /\ job'[j].stage = "done" /\ job[j].stage = "saving"
      /\ \A k \in Job \ {j} : job'[k] = job[k]
      /\ \A k \in Job : job'[k].panel = job[k].panel /\ job'[k].untested = job[k].untested
  BY JobMoves DEF ClientReady, At
<1>2. PICK p \in Panel : p = job[j].panel
  BY <1>1 DEF Started
<1>3. /\ activeClient' = j
      /\ UNCHANGED <<opening, wizard, tests, currentWizard, serving, connected, activeHost>>
  BY DEF ClientReady
<1>4. CASE IsForm(p)
  BY <1>1, <1>2, <1>3, <1>4, FormCloses DEF ClientReady
<1>5. CASE ~IsForm(p)
  <2>1. UNCHANGED <<kind, form, currentJoin>>
    BY <1>2, <1>5 DEF ClientReady
  <2>2. Types'
    BY <1>1, <1>3, <2>1 DEF Types
  <2>3. (\A q \in Panel : Tested(wizard[q])') /\ (\A q \in Panel : LinkKept(form[q])')
    BY <1>3, <2>1 DEF Tested, ShownFollows, LinkKept
  <2>4. StoredIsLive' /\ Started' /\ NoUntestedStart'
    BY <1>1, <1>3 DEF Types, StoredIsLive, Started, NoUntestedStart
  <2>5. OverlayHasJoin'
    BY <1>1, <1>2, <1>5, <2>1 DEF OverlayHasJoin, IsForm
  <2>6. QED
    BY <2>2, <2>3, <2>4, <2>5
<1>6. QED
  BY <1>4, <1>5

LEMMA EndSteps ==
    ASSUME SessionInv, Disconnect \/ \E j \in Job : ClientEnds(j)
    PROVE  SessionInv'
<1> USE DEF SessionInv
<1>1. CASE Disconnect /\ activeHost # None /\ currentWizard # None
  <2>1. currentWizard \in Panel
    BY <1>1 DEF Types
  <2>2. QED
    BY <1>1, <2>1, WizardCloses DEF Disconnect, HostEnded
<1>2. CASE ~(Disconnect /\ activeHost # None /\ currentWizard # None)
  <2>1. /\ UNCHANGED <<opening, kind, wizard, form, tests, currentWizard, currentJoin, job>>
        /\ activeHost' \in {activeHost, None} /\ activeClient' \in {activeClient, None}
        /\ serving' \subseteq serving /\ connected' \subseteq connected
        /\ currentWizard = None \/ serving' = serving
    <3>1. CASE Disconnect
      <4>1. activeHost = None \/ currentWizard = None
        BY <1>2, <3>1
      <4>2. None \notin serving
        BY ConstantsAssumption DEF Types
      <4>3. UNCHANGED <<activeHost, kind, wizard, tests, currentWizard>>
            \/ (activeHost' = None /\ UNCHANGED <<kind, wizard, tests, currentWizard>>)
        BY <3>1, <4>1 DEF Disconnect, HostEnded
      <4>4. /\ UNCHANGED <<opening, form, currentJoin, job>> /\ activeClient' = None
            /\ serving' = serving \ {activeHost} /\ connected' \subseteq connected
        BY <3>1 DEF Disconnect
      <4>5. QED
        BY <4>1, <4>2, <4>3, <4>4
    <3>2. CASE \E j \in Job : ClientEnds(j)
      BY <3>2 DEF ClientEnds
    <3>3. QED
      BY <1>2, <3>1, <3>2
  <2>2. Types'
    BY <2>1 DEF Types
  <2>3. (\A q \in Panel : Tested(wizard[q])') /\ (\A q \in Panel : LinkKept(form[q])')
    BY <2>1 DEF Tested, ShownFollows, LinkKept
  <2>4. StoredIsLive' /\ Started' /\ NoUntestedStart' /\ OverlayHasJoin'
    BY <2>1 DEF StoredIsLive, Started, NoUntestedStart, OverlayHasJoin, IsForm
  <2>5. QED
    BY <2>2, <2>3, <2>4
<1>3. QED
  BY <1>1, <1>2

LEMMA CloseSteps ==
    ASSUME SessionInv, NEW p \in Panel, CloseWizard(p) \/ CloseForm(p)
    PROVE  SessionInv'
<1>1. job \in [Job -> Jobs] /\ activeHost \in Job \cup {None} /\ activeClient \in Job \cup {None}
  BY DEF SessionInv, Types
<1>2. CASE CloseWizard(p)
  BY <1>1, <1>2, WizardCloses DEF CloseWizard
<1>3. CASE CloseForm(p)
  BY <1>1, <1>3, FormCloses DEF CloseForm
<1>4. QED
  BY <1>2, <1>3

-----------------------------------------------------------------------------
(* The theorems *)

LEMMA SessionInit == ASSUME Init PROVE SessionInv
<1> USE DEF Init
<1>1. Kept(FreshForm, FALSE)
  BY DEF Kept, Forms, FreshForm, LinkKept
<1>2. Sound(FreshWizard) /\ FreshWizard.step = 1
  BY FreshWizardTested
<1>3. NoJob \in Jobs /\ NoJob.stage = "unused" /\ ~NoJob.untested
  BY DEF NoJob, Jobs
<1>4. Types
  BY <1>1, <1>2, <1>3, ConstantsAssumption DEF Types, Kept, Sound
<1>5. (\A p \in Panel : Tested(wizard[p])) /\ (\A p \in Panel : LinkKept(form[p]))
  BY <1>1, <1>2 DEF Kept, Sound
<1>6. StoredIsLive /\ Started /\ NoUntestedStart /\ OverlayHasJoin
  BY <1>1, <1>3 DEF Kept, StoredIsLive, Started, NoUntestedStart, OverlayHasJoin, IsForm
<1>7. QED
  BY <1>4, <1>5, <1>6 DEF SessionInv

LEMMA SessionNext == ASSUME SessionInv, [Next]_vars PROVE SessionInv'
<1>1. CASE HostCommand
  BY <1>1, HostCommandStep
<1>2. ASSUME NEW p \in Panel,
             \/ WizardOpens(p) \/ WizardNext(p) \/ WizardBack(p) \/ EditUrl(p) \/ Test(p)
             \/ RevisitWizard(p) \/ CloseWizard(p)
             \/ \E mode \in {"lan", "cloud"} : SetMode(p, mode)
             \/ \E ok \in BOOLEAN : TestResult(p, ok)
             \/ \E j \in Job : Start(p, j)
      PROVE  SessionInv'
  BY <1>2, WizardOpensStep, WizardClicks, TestStep, CloseSteps, StartStep
<1>3. ASSUME NEW j \in Job,
             Created(j) \/ Bound(j) \/ StartFails(j) \/ HostReady(j) \/ HostUnheard(j)
      PROVE  SessionInv'
  BY <1>3, StartProgress
<1>4. ASSUME NEW p \in Panel,
             \/ JoinCommand(p) \/ WebviewReady(p) \/ HideForm(p) \/ CloseForm(p)
             \/ \E link \in Link : OpenLink(p, link)
             \/ \E j \in Job, mode \in {"lan", "cloud"} : Connect(p, j, mode)
      PROVE  SessionInv'
  <2>1. CASE JoinCommand(p)
    BY <2>1, OpensFormStep DEF JoinCommand
  <2>2. CASE WebviewReady(p) \/ HideForm(p)
    BY <2>2, FormMessages
  <2>3. CASE CloseForm(p)
    BY <2>3, CloseSteps
  <2>4. ASSUME NEW link \in Link, OpenLink(p, link)
        PROVE  SessionInv'
    <3>1. CASE OpensForm(p, link)
      BY <3>1, OpensFormStep
    <3>2. CASE currentJoin = p
      BY <2>4, <3>2, FormMessages, ConstantsAssumption
    <3>3. QED
      BY <2>4, <3>1, <3>2 DEF OpenLink
  <2>5. ASSUME NEW j \in Job, NEW mode \in {"lan", "cloud"}, Connect(p, j, mode)
        PROVE  SessionInv'
    BY <2>5, ConnectStep
  <2>6. QED
    BY <1>4, <2>1, <2>2, <2>3, <2>4, <2>5
<1>5. ASSUME NEW j \in Job, Joined(j) \/ JoinFails(j) \/ ClientReady(j)
      PROVE  SessionInv'
  BY <1>5, JoinedStep, JoinFailsStep, ClientReadyStep
<1>6. CASE Disconnect \/ \E j \in Job : ClientEnds(j)
  BY <1>6, EndSteps
<1>7. CASE UNCHANGED vars
  <2>1. Types'
    BY <1>7 DEF SessionInv, Types, vars
  <2>2. QED
    BY <1>7, <2>1 DEF SessionInv, vars, Tested, ShownFollows, LinkKept, StoredIsLive, Started,
          NoUntestedStart, OverlayHasJoin, IsForm
<1>8. QED
  BY <1>1, <1>2, <1>3, <1>4, <1>5, <1>6, <1>7 DEF Next, WizardStep, FormStep

\* The inductive invariant of the window's panels, starts and joins, from the first
\* click of either command on (WizardPanel.ts, JoinPanel.ts, extension.ts).
THEOREM Invariance == Spec => []SessionInv
<1>1. Init => SessionInv
  BY SessionInit
<1>2. SessionInv /\ [Next]_vars => SessionInv'
  BY SessionNext
<1>3. QED
  BY <1>1, <1>2, PTL DEF Spec

\* What every panel, call and slot holds has its type.
THEOREM TypeCorrect == Spec => []SessionTypeOK
<1>1. SessionInv => SessionTypeOK
  BY DEF SessionInv, Types, SessionTypeOK, Wizards, Forms, Jobs
<1>2. QED
  BY <1>1, Invariance, PTL

\* No way through the wizard's steps, no late verdict and no edit of the URL leads to a
\* cloud host whose relay was not tested (WizardPanel.ts, the gate on relayUrlReachable).
THEOREM StartsAreTested == Spec => []NoUntestedStart
<1>1. SessionInv => NoUntestedStart
  BY DEF SessionInv
<1>2. QED
  BY <1>1, Invariance, PTL

\* A webview that is up shows the deep link confirmed last, whenever it was confirmed
\* (JoinPanel.ts, pendingPrefill and webview-ready).
THEOREM LinksAreShown == Spec => []ConfirmedLinkShown
<1>1. SessionInv => ConfirmedLinkShown
  BY DEF SessionInv, LinkKept, ConfirmedLinkShown
<1>2. QED
  BY <1>1, Invariance, PTL

\* A join panel that says it is connecting has a join under way, whatever else was
\* clicked meanwhile (JoinPanel.ts, handleJoinConnect).
THEOREM OverlaysEnd == Spec => []OverlayHasJoin
<1>1. SessionInv => OverlayHasJoin
  BY DEF SessionInv
<1>2. QED
  BY <1>1, Invariance, PTL

\* The wizard the window knows shows its share screen only while one of the hosts it
\* started listens (extension.ts, session-ended).
THEOREM ShareScreens == Spec => []ShareScreenIsLive
<1>1. SessionInv => ShareScreenIsLive
  <2>1. SUFFICES ASSUME SessionInv, currentWizard # None, wizard[currentWizard].shown = 5
                 PROVE  \E j \in serving : job[j].panel = currentWizard
    BY DEF ShareScreenIsLive, SharesSession
  <2>2. currentWizard \in Panel /\ Tested(wizard[currentWizard])
    BY <2>1 DEF SessionInv, Types
  <2>3. wizard[currentWizard].step = 5
    BY <2>1, <2>2 DEF Tested, ShownFollows
  <2>4. QED
    BY <2>1, <2>3 DEF SessionInv, StoredIsLive
<1>2. QED
  BY <1>1, Invariance, PTL

=============================================================================
