--------------------------- MODULE GenerationRequest ---------------------------
(***************************************************************************)
(* A request for a generation on its way from the controls of the console to the  *)
(* provider.  The same contract is read four times: by the console, from the list *)
(* of models it fetched; by the API, from the model's latest revision; by a retry, *)
(* from the revision the job is pinned to; and by the plugin, before its call.     *)
(* The model may be revised between any two of them.                               *)
(***************************************************************************)
EXTENDS ParameterContract, SequencesExt

CONSTANTS
    Declarations,   \* revision of the model -> the contract it holds, well formed or not
    CanonicalNames, \* declared name -> the name the console's state uses, for every name
    TypedValues,    \* what a user may enter for a parameter, besides what a control offers
    MaxInputs,      \* inputs of one request: the runtime setting, at its default
    MaxStaged,      \* bound: images staged
    MaxPicks,       \* bound: changes of a control
    MaxPublishes    \* bound: revisions of the model

ASSUME RequestAssumption ==
    /\ MaxInputs \in Nat \ {0} /\ MaxStaged \in Nat /\ MaxPicks \in Nat /\ MaxPublishes \in Nat
    /\ \A v \in DOMAIN Declarations :
           NamesOf(Declarations[v].parameters) \subseteq DOMAIN CanonicalNames

\* A declaration is a record with the fields a contract has, and its parameters are a sequence.
ASSUME DeclarationAssumption ==
    \A v \in DOMAIN Declarations : LET c == Declarations[v]
                                  IN /\ DOMAIN c = DOMAIN Undeclared
                                     /\ c = [f \in DOMAIN c |-> c[f]]
                                     /\ Len(c.parameters) \in Nat
                                     /\ DOMAIN c.parameters = 1 .. Len(c.parameters)
                                     /\ \A i \in DOMAIN c.inputSlots :
                                            /\ DOMAIN c.inputSlots[i] = DOMAIN Slot("mask", TRUE, 1)
                                            /\ c.inputSlots[i].minCount \in Nat
                                            /\ c.inputSlots[i].maxCount \in Nat

VARIABLES
    published,  \* the latest revision of the model
    listed,     \* the revision of the model in the console's list
    panel,      \* paramsByKind: canonical name -> picked value
    typed,    \* the value the user entered last, for the model on the screen
    staged,     \* the roles of the staged images, in their order
    request,    \* the request the console sent, and the contract the API checked it against
    job,        \* the stored job: its parameters, its inputs and the contract it is pinned to
    refusals,   \* the issues of the last gate that refused, and what it was given
    picks, publishes

requestVars == <<published, listed, panel, typed, staged, request, job, refusals, picks, publishes>>

\* The contracts of the revisions, as their readers have them, and the one on the screen.
Contracts == [v \in DOMAIN Declarations |-> CapabilitiesFromRow(Declarations[v])]
Carrier   == Contracts[listed]

None == [none |-> TRUE]
Empty == <<>>
Canonical(d) == CanonicalNames[d.name]

-----------------------------------------------------------------------------
(* The console (web-next/src/shared/lib/media-parameters.ts).                    *)

\* The value of a parameter in the console's state, under either of its names.
Picked(d, state) ==
    IF Canonical(d) \in DOMAIN state THEN {state[Canonical(d)]}
    ELSE IF d.name \in DOMAIN state THEN {state[d.name]} ELSE {}

\* The default a control shows: the descriptor's own, then the model's.
DescriptorDefault(carrier, d) ==
    IF d.default # {} THEN d.default
    ELSE IF d.name \in DOMAIN carrier.defaults THEN {carrier.defaults[d.name]}
    ELSE IF Canonical(d) \in DOMAIN carrier.defaults THEN {carrier.defaults[Canonical(d)]} ELSE {}

\* What a selection holds for each declared parameter, under the declared names.
DeclaredValues(carrier, state) ==
    LET named == {d \in DescriptorsOf(carrier.parameters) : Picked(d, state) # {}}
    IN [n \in {d.name : d \in named} |->
            CHOOSE v \in Picked(Descriptor(carrier.parameters, n), state) : TRUE]

ReconcileModelParameters(carrier, state) ==
    LET kept == ReconcileParameters(carrier.parameters, DeclaredValues(carrier, state))
        names == {CanonicalNames[n] : n \in DOMAIN kept}
    IN [c \in names |-> kept[CHOOSE n \in DOMAIN kept : CanonicalNames[n] = c]]

\* The controls on the screen: a text has none, and visibility is judged on the state.
Controls(carrier, state) ==
    {d \in DescriptorsOf(carrier.parameters) : d.type # "text" /\ IsParameterVisible(d, state)}

\* Mutant: every value is judged by itself.
IssuesOfValues(carrier, state) ==
    {Issue("ILLEGAL", {d.name}) :
        d \in {s \in DescriptorsOf(carrier.parameters) :
                  IsParameterVisible(s, state) /\ \E v \in Picked(s, state) : ~Legal(s, v)}}

\* What the button is disabled for.
ParameterIssues(carrier, state) ==
    LET declared  == DescriptorsOf(carrier.parameters)
        seen      == {d \in declared : Picked(d, state) # {} /\ IsParameterVisible(d, state)}
        unset     == {d \in declared : Picked(d, state) = {} /\ DescriptorDefault(carrier, d) # {}}
        effective == [n \in {d.name : d \in seen \cup unset} |->
                          LET d == Descriptor(carrier.parameters, n)
                          IN CHOOSE v \in (IF d \in seen THEN Picked(d, state)
                                           ELSE DescriptorDefault(carrier, d)) : TRUE]
    IN {Issue("ILLEGAL", {d.name}) : d \in {s \in seen : ~Legal(s, effective[s.name])}}
       \cup EvaluateCrossFieldConstraints(carrier.crossFieldConstraints, effective)

\* The parameters of the request: a legal pick, else the default; nothing for what is hidden.
BuildMediaParameters(carrier, state) ==
    LET value(d) == LET legal == {v \in Picked(d, state) : Legal(d, v)}
                    IN IF legal # {} THEN legal ELSE DescriptorDefault(carrier, d)
        sent     == {d \in DescriptorsOf(carrier.parameters) :
                         IsParameterVisible(d, state) /\ value(d) # {}}
    IN [n \in {d.name : d \in sent} |-> CHOOSE v \in value(Descriptor(carrier.parameters, n)) : TRUE]

SlotRank(role) == CASE role = "first_frame" -> 0 [] role = "last_frame" -> 1
                    [] role = "reference_image" -> 2 [] role = "mask" -> 3 [] OTHER -> 4

\* The slots a staged image may fill.  A model of videos takes frames only.
TakesImages(carrier, s) ==
    /\ s.kinds = {} \/ "image" \in s.kinds
    /\ s.role # "source_video"
    /\ ~(carrier.video /\ s.role = "reference_image")

ImageSlots(carrier) ==
    SortSeq(SelectSeq(carrier.inputSlots, LAMBDA s : TakesImages(carrier, s)),
            LAMBDA s, t : SlotRank(s.role) < SlotRank(t.role))

\* The role of each image by its position, for as many as fit.
AllRolePositions(carrier) ==
    FoldLeft(LAMBDA roles, s : roles \o [i \in 1 .. s.maxCount |-> s.role], <<>>, ImageSlots(carrier))

PlanRolePositions(carrier) ==
    LET all == AllRolePositions(carrier)
    IN SubSeq(all, 1, IF Len(all) < MaxInputs THEN Len(all) ELSE MaxInputs)

ReconcileStagedRoles(carrier, roles) ==
    LET positions == PlanRolePositions(carrier)
    IN [i \in DOMAIN roles |-> IF i \in DOMAIN positions THEN positions[i] ELSE roles[i]]

\* The first slot of a role, if there is one: they are sorted by role only.
SlotOf(carrier, role) ==
    LET fits == {i \in DOMAIN carrier.inputSlots :
                    carrier.inputSlots[i].role = role /\ TakesImages(carrier, carrier.inputSlots[i])}
    IN {carrier.inputSlots[i] : i \in {j \in fits : \A k \in fits : j <= k}}

\* Whether the staged images block the request: too many, of a role the model has no slot
\* for, or frames out of place.  Whether a slot requires an image is not looked at.
InputPlanViolated(carrier, roles) ==
    LET first == {i \in DOMAIN roles : roles[i] = "first_frame"}
        last  == {i \in DOMAIN roles : roles[i] = "last_frame"}
        lone(s) == s.role \in {"first_frame", "last_frame"} /\ s.maxCount <= 1
    IN \/ Len(roles) > MaxInputs \/ Len(roles) > Len(AllRolePositions(carrier))
       \/ Cardinality(first) > 1 \/ Cardinality(last) > 1
       \/ ~(first \subseteq {1}) \/ ~(last \subseteq {Len(roles)})
       \/ last # {} /\ first = {}
       \/ \E i \in DOMAIN roles :
              LET slot == SlotOf(carrier, roles[i])
              IN slot = {} \/ \E s \in slot : ~lone(s) /\ Times(roles, roles[i]) > s.maxCount

-----------------------------------------------------------------------------
(* The API (apps/api/src/modules/generations) and its checks.                      *)

\* A new request is held to the runtime setting too.
Capped(s) == [s EXCEPT !.maxCount = IF s.maxCount < MaxInputs THEN s.maxCount ELSE MaxInputs]

WithRuntimeCeiling(c) ==
    [c EXCEPT !.inputSlots = [i \in DOMAIN c.inputSlots |-> Capped(c.inputSlots[i])]]

\* What a gate refused.  It is `agreed` when the gate before it read the same contract.
Refused(contract, before, given, inputs, issues) ==
    [contract |-> contract, agreed |-> contract = before, given |-> given, inputs |-> inputs,
     issues |-> issues]

-----------------------------------------------------------------------------
RequestInit ==
    /\ published \in DOMAIN Declarations
    /\ listed = published
    /\ panel = Empty /\ typed = Empty /\ staged = <<>>
    /\ request = None /\ job = None /\ refusals = None
    /\ picks = 0 /\ publishes = 0

\* The effects of the last event have run: React flushes them before the next one.
Reconciled == panel = ReconcileModelParameters(Carrier, panel)

ConsoleUnchanged == UNCHANGED <<listed, panel, typed, staged, picks>>
ServerUnchanged  == UNCHANGED <<published, job, refusals, publishes>>

\* The effect keyed on the model and on the selection.
Reconcile ==
    /\ ~Reconciled
    /\ panel' = ReconcileModelParameters(Carrier, panel)
    /\ ServerUnchanged /\ UNCHANGED <<listed, typed, staged, request, picks>>

\* What a control lets the user enter: the options of an enum, the presets of a size and, if
\* it may be a custom one, any size; any value of the type otherwise.
Enterable(d) ==
    CASE d.type = "enum"       -> OptionValues(d)
      [] d.type = "image-size" -> PresetValues(d) \cup (IF d.allowCustom
                                                         THEN {v \in TypedValues : ParsedSize(v) # {}} ELSE {})
      [] OTHER                 -> {v \in TypedValues : ~WrongType([d EXCEPT !.type = IF d.type = "integer"
                                                                    THEN "number" ELSE d.type], v)}

\* The user changes a control.
Pick(d, v) ==
    /\ Reconciled /\ request = None /\ picks < MaxPicks
    /\ d \in Controls(Carrier, panel)
    /\ panel' = (Canonical(d) :> v) @@ panel
    /\ typed' = d.name :> v
    /\ picks' = picks + 1
    /\ ServerUnchanged /\ UNCHANGED <<listed, staged, request>>

\* The user stages some images: their order alone decides what each of them is.
Stage(n) ==
    /\ Reconciled /\ request = None
    /\ staged' = ReconcileStagedRoles(Carrier, [i \in 1 .. n |-> "reference_image"])
    /\ ServerUnchanged /\ UNCHANGED <<listed, panel, typed, request, picks>>

\* The list is fetched again, with the model as it is now: the selection stays, the roles of the
\* staged images follow the model.
Refetch ==
    /\ Reconciled /\ request = None
    /\ listed # published
    /\ listed' = published
    /\ staged' = ReconcileStagedRoles(Contracts[published], staged)
    /\ typed' = Empty
    /\ ServerUnchanged /\ UNCHANGED <<panel, request, picks>>

\* The model is saved again, or its plugin is: another revision becomes the latest.
Publish(v) ==
    /\ publishes < MaxPublishes /\ v # published
    /\ published' = v /\ publishes' = publishes + 1
    /\ ConsoleUnchanged /\ UNCHANGED <<request, job, refusals>>

\* The button is enabled and the request leaves.
Submit ==
    /\ Reconciled /\ request = None /\ job = None
    /\ ParameterIssues(Carrier, panel) = {}
    /\ ~InputPlanViolated(Carrier, staged)
    /\ request' = [parameters |-> BuildMediaParameters(Carrier, panel), inputs |-> staged,
                   checked |-> {}]
    /\ ServerUnchanged /\ ConsoleUnchanged

\* The API reads the model and checks the request.
Check ==
    /\ request # None /\ request.checked = {}
    /\ LET issues == ValidateGenerationRequest(WithRuntimeCeiling(Contracts[published]),
                                               request.parameters, request.inputs)
       IN IF issues = {}
          THEN /\ request' = [request EXCEPT !.checked = {published}]
               /\ UNCHANGED refusals
          ELSE /\ refusals' = Refused(published, listed, request.parameters, request.inputs, issues)
               /\ request' = None
    /\ UNCHANGED <<published, job, publishes>> /\ ConsoleUnchanged

\* The transaction: it pins whatever revision is the latest by now.
Create ==
    /\ request # None /\ request.checked # {}
    /\ LET checked == CHOOSE v \in request.checked : TRUE
       IN job' = [parameters |-> NormalizedParameters(Contracts[checked], request.parameters),
                  inputs |-> request.inputs,
                  checked |-> checked, pinned |-> published]
    /\ request' = None
    /\ refusals' = None
    /\ UNCHANGED <<published, publishes>> /\ ConsoleUnchanged

\* A retry is checked like a new request, against the pinned revision.
Retry ==
    /\ job # None /\ request = None
    /\ LET issues == ValidateGenerationRequest(Contracts[job.pinned],
                                               job.parameters, job.inputs)
       IN refusals' = IF issues = {} THEN None
                      ELSE Refused(job.pinned, job.checked, job.parameters, job.inputs, issues)
    /\ UNCHANGED <<published, request, job, publishes>> /\ ConsoleUnchanged

\* The worker hands the job to the plugin, which checks it against its own declaration.
Dispatch ==
    /\ job # None /\ request = None
    /\ LET issues == ValidateAgainstDeclaration(Contracts[job.pinned], job.parameters)
       IN refusals' = IF issues = {} THEN None
                      ELSE Refused(job.pinned, job.checked, job.parameters, job.inputs, issues)
    /\ UNCHANGED <<published, request, job, publishes>> /\ ConsoleUnchanged

Operate ==
    \/ \E d \in DescriptorsOf(Carrier.parameters) : \E v \in Enterable(d) : Pick(d, v)
    \/ \E n \in 0 .. MaxStaged : Stage(n)
    \/ Reconcile \/ Refetch \/ Submit

RequestNext ==
    \/ Operate
    \/ Check \/ Create \/ Retry \/ Dispatch
    \/ \E v \in DOMAIN Declarations : Publish(v)

RequestSpec == RequestInit /\ [][RequestNext]_requestVars

-----------------------------------------------------------------------------
(* Properties.                                                                    *)

RequestTypeOK ==
    /\ {published, listed} \subseteq DOMAIN Declarations
    /\ Len(staged) <= MaxStaged
    /\ picks \in 0 .. MaxPicks /\ publishes \in 0 .. MaxPublishes

\* A default nobody looked at: a text's, a flag's, or one of another type than the parameter's.
UncheckedDefault(c, n, v) ==
    LET d == Descriptor(c.parameters, n)
    IN /\ v \in d.default
       /\ \/ d.type \in {"text", "boolean"}
          \/ v.kind # (IF d.type \in {"integer", "number"} THEN "number" ELSE "string")

\* What a refused request gave, of what an issue is about: roles or parameters.
InputCodes == {"UNKNOWN_INPUT_ROLE", "MISSING_REQUIRED_INPUT", "INPUT_COUNT_EXCEEDED"}

GivenOf(r, i) ==
    i.about \cap IF i.code \in InputCodes THEN {r.inputs[k] : k \in DOMAIN r.inputs} ELSE DOMAIN r.given

\* What the console does not look at.
LeftToTheApi == {"MODEL_CAPABILITIES_UNDECLARED", "INVALID_COUNT", "UNSUPPORTED_GENERATION_MODE",
                 "INPUT_COUNT_TOO_LOW"}

\* An issue that one and the same contract may raise at a later gate.
Expected(r, i) ==
    \/ i.code \in LeftToTheApi
    \/ GivenOf(r, i) # i.about
    \/ \E n \in i.about \cap DOMAIN r.given :
           \/ UncheckedDefault(Contracts[r.contract], n, r.given[n])
           \/ ~IsParameterVisible(Descriptor(Contracts[r.contract].parameters, n), r.given)

\* A refused request is refused for something it left out.  The button is enabled only for
\* values the API takes, and what the API stored, a retry and the plugin take again
\* (media-parameters.ts:356, retry-validation.ts:20): only what is required and has no value, a
\* value that the ones beside it hide, or a default that no gate looked at comes up later.  This
\* is about one contract: the one the console has is the latest, and the one the API checked is
\* the one it pinned.
RefusedForWhatIsMissing ==
    refusals # None /\ refusals.agreed => \A i \in refusals.issues : Expected(refusals, i)

\* Whether one of the parameters it hangs on hangs on another one.
Chained(c, d) ==
    \E dep \in d.dependsOn : Descriptor(c.parameters, dep.parameter).dependsOn # {}

\* What a job carries is legal under the contract it was checked against, one by one and
\* together, and nothing is carried that the values beside it hide (media-parameters.ts:65).
\* A chain of dependencies is followed for one step only: the API looks at what was given.
StoredParametersLegal ==
    job # None =>
        LET c == Contracts[job.checked]
        IN /\ \A n \in DOMAIN job.parameters :
                  LET d == Descriptor(c.parameters, n)
                  IN /\ Legal(d, job.parameters[n]) \/ UncheckedDefault(c, n, job.parameters[n])
                     /\ IsParameterVisible(d, job.parameters) \/ Chained(c, d)
           /\ EvaluateCrossFieldConstraints(c.crossFieldConstraints, job.parameters) = {}

\* What the user entered for the model on the screen is what is sent, or nothing is: of a typed
\* size that breaks the band, media-parameters.ts:301 says that "quietly substituting a default
\* would submit something they never asked for. Invalid input must block the button instead".
SentAsEntered ==
    request # None =>
        \A n \in DOMAIN typed \cap DOMAIN request.parameters :
            request.parameters[n] = typed[n]
=============================================================================
