----------------------------- MODULE RequestProofs -----------------------------
(***************************************************************************)
(* For every set of contracts: what a job stores is legal, and what is stored is   *)
(* taken again.  For every set of plugin packages: one that is accepted is loaded.   *)
(***************************************************************************)
EXTENDS GenerationRequest, PluginPackages, FiniteSetTheorems, SequenceTheorems, TLAPS

\* What a declaration without findings promises of its parameters.
SoundParameters(ps) ==
    /\ \A i, j \in DOMAIN ps : ps[i].name = ps[j].name => i = j
    /\ \A d \in DescriptorsOf(ps) :
           /\ d.type \in DescriptorTypes
           /\ \A dep \in d.dependsOn : dep.parameter \in NamesOf(ps)
           /\ \A v \in d.default :
                  \/ Legal(d, v) \/ d.type \in {"text", "boolean"}
                  \/ v.kind # (IF d.type \in {"integer", "number"} THEN "number" ELSE "string")

LEMMA PresetLegal ==
    ASSUME NEW d, d.type = "image-size", ImageSizeFindings(d) = {}, NEW v \in d.default, v.kind = "string"
    PROVE  Legal(d, v)
<1>1. v \in PresetValues(d)
  BY DEF ImageSizeFindings
<1>2. PICK i \in DOMAIN d.presets : v = d.presets[i].value
  BY <1>1 DEF PresetValues
<1>3. \/ v = AutoSize
      \/ /\ ParsedSize(v) # {}
         /\ \A g \in ParsedSize(v) : \A c \in d.constraints : ImageConstraintViolations(c, g[1], g[2]) = {}
  <2> DEFINE broken(p) == /\ p.value # AutoSize
                          /\ \/ ParsedSize(p.value) = {}
                             \/ \E g \in ParsedSize(p.value) :
                                    \/ \E c \in d.constraints : ImageConstraintViolations(c, g[1], g[2]) # {}
                                    \/ \E shown \in p.geometry : shown # g
  <2>1. ~ \E k \in DOMAIN d.presets : broken(d.presets[k])
    BY DEF ImageSizeFindings
  <2>2. ~ broken(d.presets[i])
    BY <2>1
  <2> QED
    BY <1>2, <2>2
<1>4. ImageSizeIssues(d, v) = {}
  <2> DEFINE Codes(g) == IF \E c \in d.constraints : ImageConstraintViolations(c, g[1], g[2]) # {}
                         THEN {"MEDIA_PARAMETER_CONSTRAINT_FAILED"} ELSE {}
  <2>1. CASE v = AutoSize
    BY <1>1, <2>1 DEF ImageSizeIssues
  <2>2. CASE v # AutoSize
    <3>1. ParsedSize(v) # {} /\ \A g \in ParsedSize(v) : Codes(g) = {}
      BY <1>3, <2>2
    <3>2. UNION {Codes(g) : g \in ParsedSize(v)} = {}
      BY <3>1
    <3> QED
      BY <1>1, <2>2, <3>1, <3>2 DEF ImageSizeIssues
  <2> QED
    BY <2>1, <2>2
<1> QED
  BY <1>4 DEF Legal, ValueIssues, WrongType

LEMMA DefaultLegal ==
    ASSUME NEW d, NEW names, DescriptorFindings(d, names) = {}, NEW v \in d.default
    PROVE  \/ Legal(d, v) \/ d.type \in {"text", "boolean"}
           \/ v.kind # (IF d.type \in {"integer", "number"} THEN "number" ELSE "string")
<1>1. d.type \in DescriptorTypes
  BY DEF DescriptorFindings
<1>2. CASE d.type = "image-size"
  BY <1>1, <1>2, PresetLegal DEF DescriptorFindings
<1>3. CASE d.type = "enum"
  <2>1. v.kind = "string" => v \in OptionValues(d)
    BY <1>1, <1>3 DEF DescriptorFindings
  <2> QED
    BY <1>3, <2>1 DEF Legal, ValueIssues, WrongType
<1>4. CASE d.type \in {"integer", "number"}
  BY <1>1, <1>4 DEF DescriptorFindings, IsNumber
<1> QED
  BY <1>1, <1>2, <1>3, <1>4 DEF DescriptorTypes

LEMMA ParametersSound ==
    ASSUME NEW ps, Len(ps) \in Nat, DOMAIN ps = 1 .. Len(ps), ParameterFindings(ps) = {}
    PROVE  SoundParameters(ps)
<1> DEFINE Before(i) == {ps[j].name : j \in 1 .. i - 1}
<1>1. ASSUME NEW i \in DOMAIN ps
      PROVE  ps[i].name \notin Before(i) /\ DescriptorFindings(ps[i], Before(i) \cup {ps[i].name}) = {}
  BY <1>1 DEF ParameterFindings
<1>2. ASSUME NEW i \in DOMAIN ps, NEW j \in DOMAIN ps, ps[i].name = ps[j].name
      PROVE  i = j
  BY <1>1, <1>2
<1>3. ASSUME NEW i \in DOMAIN ps
      PROVE  /\ ps[i].type \in DescriptorTypes
             /\ \A dep \in ps[i].dependsOn : dep.parameter \in NamesOf(ps)
  <2>1. Before(i) \cup {ps[i].name} \subseteq NamesOf(ps)
    BY <1>3 DEF NamesOf
  <2> HIDE DEF Before
  <2> QED
    BY <1>1, <1>3, <2>1 DEF DescriptorFindings
<1>4. ASSUME NEW i \in DOMAIN ps, NEW v \in ps[i].default
      PROVE  \/ Legal(ps[i], v) \/ ps[i].type \in {"text", "boolean"}
             \/ v.kind # (IF ps[i].type \in {"integer", "number"} THEN "number" ELSE "string")
  <2> HIDE DEF Before
  <2> QED
    BY <1>1, <1>4, DefaultLegal
<1> QED
  BY <1>2, <1>3, <1>4 DEF SoundParameters, DescriptorsOf

-----------------------------------------------------------------------------
(* The contract of a revision, and what its readers make of it. *)

\* A contract that is declared is one that was accepted.
Sound(c) ==
    /\ SoundParameters(c.parameters)
    /\ \A n \in DOMAIN c.defaults :
           n \in NamesOf(c.parameters) /\ Legal(Descriptor(c.parameters, n), c.defaults[n])
    /\ \A r \in c.crossFieldConstraints :
           /\ r.type \in CouplingTypes
           /\ {r.parameter, r.pair[1], r.pair[2]} \subseteq NamesOf(c.parameters)

LEMMA ContractSound ==
    ASSUME NEW v \in DOMAIN Declarations, Contracts[v].declared
    PROVE  Sound(Contracts[v])
<1> DEFINE d == Declarations[v]
           c == Contracts[v]
<1>1. c = CapabilitiesFromRow(d)
  BY DEF Contracts
<1>2. DeclarationFindings(d) = {}
  BY <1>1 DEF CapabilitiesFromRow, Undeclared
<1>3. c = [d EXCEPT !.maxCount = IF @ = {} THEN {0} ELSE @]
  BY <1>1, <1>2 DEF CapabilitiesFromRow
<1>4. /\ DOMAIN d = DOMAIN Undeclared
      /\ Len(d.parameters) \in Nat
      /\ DOMAIN d.parameters = 1 .. Len(d.parameters)
  BY DeclarationAssumption
<1>5. /\ c.parameters = d.parameters
      /\ c.defaults = d.defaults
      /\ c.crossFieldConstraints = d.crossFieldConstraints
  BY <1>3, <1>4 DEF Undeclared
<1>6. /\ ParameterFindings(d.parameters) = {}
      /\ CrossFieldFindings(d.crossFieldConstraints, d.parameters) = {}
      /\ DefaultFindings(d.defaults, d.parameters) = {}
  BY <1>2 DEF DeclarationFindings
<1>7. SoundParameters(d.parameters)
  BY <1>4, <1>6, ParametersSound
<1>8. \A r \in d.crossFieldConstraints :
         /\ r.type \in CouplingTypes
         /\ {r.parameter, r.pair[1], r.pair[2]} \subseteq NamesOf(d.parameters)
  BY <1>6 DEF CrossFieldFindings
<1>9. \A n \in DOMAIN d.defaults :
         n \in NamesOf(d.parameters) /\ Legal(Descriptor(d.parameters, n), d.defaults[n])
  BY <1>6 DEF DefaultFindings
<1> QED
  BY <1>5, <1>7, <1>8, <1>9 DEF Sound

\* A name names one descriptor.
LEMMA Named ==
    ASSUME NEW ps, SoundParameters(ps), NEW d \in DescriptorsOf(ps)
    PROVE  d.name \in NamesOf(ps) /\ Descriptor(ps, d.name) = d
<1>1. \A e \in DescriptorsOf(ps) : e.name = d.name => e = d
  BY DEF SoundParameters, DescriptorsOf
<1> QED
  BY <1>1 DEF Descriptor, NamesOf, DescriptorsOf

LEMMA NameNames ==
    ASSUME NEW ps, NEW n \in NamesOf(ps)
    PROVE  Descriptor(ps, n) \in DescriptorsOf(ps) /\ Descriptor(ps, n).name = n
<1>1. \E d \in DescriptorsOf(ps) : d.name = n
  BY DEF NamesOf, DescriptorsOf
<1> QED
  BY <1>1 DEF Descriptor

\* A value that is given, visible and not refused is legal.
LEMMA GivenLegal ==
    ASSUME NEW c, NEW raw, ValueRefusals(c, raw) = {}, NEW d \in DescriptorsOf(c.parameters),
           IsParameterVisible(d, raw), d.name \in DOMAIN raw
    PROVE  Legal(d, raw[d.name])
<1> DEFINE Per(e) == IF e.name \notin DOMAIN raw
                     THEN IF e.required /\ ApiDefault(c, e) = {}
                          THEN {Issue("MISSING_REQUIRED_PARAMETER", {e.name})} ELSE {}
                     ELSE {Issue(code, {e.name}) : code \in ValueIssues(e, raw[e.name])}
<1>1. UNION {Per(e) : e \in {f \in DescriptorsOf(c.parameters) : IsParameterVisible(f, raw)}} = {}
  BY DEF ValueRefusals
<1>2. Per(d) = {}
  BY <1>1
<1>3. {Issue(code, {d.name}) : code \in ValueIssues(d, raw[d.name])} = {}
  BY <1>2
<1> QED
  BY <1>3 DEF Legal

\* What the API puts together from a request it accepts, parameter by parameter.
LEMMA NormalizedValue ==
    ASSUME NEW c, Sound(c), NEW raw, NEW n \in DOMAIN NormalizedParameters(c, raw)
    PROVE  LET d == Descriptor(c.parameters, n)
               v == NormalizedParameters(c, raw)[n]
           IN /\ n \in NamesOf(c.parameters) /\ IsParameterVisible(d, raw)
              /\ n \in DOMAIN raw => v = raw[n] /\ Legal(d, v)
              /\ n \notin DOMAIN raw => v \in ApiDefault(c, d)
<1> DEFINE value(d) == IF d.name \in DOMAIN raw
                       THEN IF Legal(d, raw[d.name]) THEN {raw[d.name]} ELSE {}
                       ELSE ApiDefault(c, d)
           kept     == {d \in DescriptorsOf(c.parameters) : IsParameterVisible(d, raw) /\ value(d) # {}}
<1>1. NormalizedParameters(c, raw)
        = [m \in {d.name : d \in kept} |-> CHOOSE v \in value(Descriptor(c.parameters, m)) : TRUE]
  BY DEF NormalizedParameters
<1>2. PICK d \in kept : d.name = n
  BY <1>1
<1>3. Descriptor(c.parameters, n) = d /\ n \in NamesOf(c.parameters)
  BY <1>2, Named DEF Sound
<1>4. NormalizedParameters(c, raw)[n] \in value(d)
  BY <1>1, <1>2, <1>3
<1> QED
  BY <1>2, <1>3, <1>4

\* What is given, declared, visible and legal is kept.
LEMMA NormalizedKeeps ==
    ASSUME NEW c, Sound(c), NEW raw, NEW d \in DescriptorsOf(c.parameters),
           IsParameterVisible(d, raw), d.name \in DOMAIN raw, Legal(d, raw[d.name])
    PROVE  /\ d.name \in DOMAIN NormalizedParameters(c, raw)
           /\ NormalizedParameters(c, raw)[d.name] = raw[d.name]
<1>1. d.name \in DOMAIN NormalizedParameters(c, raw)
  BY DEF NormalizedParameters
<1>2. Descriptor(c.parameters, d.name) = d
  BY Named DEF Sound
<1> QED
  BY <1>1, <1>2, NormalizedValue

-----------------------------------------------------------------------------
(* What is stored. *)

\* What a job carries under the contract it was checked against.
Stored(c, parameters) ==
    /\ \A n \in DOMAIN parameters :
           LET d == Descriptor(c.parameters, n)
           IN /\ n \in NamesOf(c.parameters)
              /\ Legal(d, parameters[n]) \/ UncheckedDefault(c, n, parameters[n])
              /\ IsParameterVisible(d, parameters) \/ Chained(c, d)
    /\ EvaluateCrossFieldConstraints(c.crossFieldConstraints, parameters) = {}

LEMMA CheckedIsStored ==
    ASSUME NEW c, Sound(c), NEW raw, ValueRefusals(c, raw) = {},
           EvaluateCrossFieldConstraints(c.crossFieldConstraints, NormalizedParameters(c, raw)) = {}
    PROVE  Stored(c, NormalizedParameters(c, raw))
<1> DEFINE all == NormalizedParameters(c, raw)
<1>1. ASSUME NEW n \in DOMAIN all
      PROVE  Legal(Descriptor(c.parameters, n), all[n]) \/ UncheckedDefault(c, n, all[n])
  <2> DEFINE d == Descriptor(c.parameters, n)
  <2>1. /\ n \in NamesOf(c.parameters)
        /\ n \in DOMAIN raw => all[n] = raw[n] /\ Legal(d, all[n])
        /\ n \notin DOMAIN raw => all[n] \in ApiDefault(c, d)
    BY <1>1, NormalizedValue
  <2>2. d \in DescriptorsOf(c.parameters) /\ d.name = n
    BY <2>1, NameNames
  <2>3. CASE all[n] \in d.default
    BY <2>2, <2>3 DEF Sound, SoundParameters, UncheckedDefault
  <2>4. CASE n \in DOMAIN c.defaults /\ all[n] = c.defaults[n]
    BY <2>4 DEF Sound
  <2> HIDE DEF all
  <2> QED
    BY <2>1, <2>2, <2>3, <2>4 DEF ApiDefault
<1>2. ASSUME NEW n \in DOMAIN all, ~Chained(c, Descriptor(c.parameters, n))
      PROVE  IsParameterVisible(Descriptor(c.parameters, n), all)
  <2> DEFINE d == Descriptor(c.parameters, n)
  <2>1. n \in NamesOf(c.parameters) /\ IsParameterVisible(d, raw)
    BY <1>2, NormalizedValue
  <2>2. d \in DescriptorsOf(c.parameters) /\ d.name = n
    BY <2>1, NameNames
  <2>3. ASSUME NEW dep \in d.dependsOn
        PROVE  dep.parameter \in DOMAIN all /\ \E e \in dep.values : SameText(e, all[dep.parameter])
    <3> DEFINE p == Descriptor(c.parameters, dep.parameter)
    <3>1. dep.parameter \in NamesOf(c.parameters)
      BY <2>2, <2>3 DEF Sound, SoundParameters
    <3>2. p \in DescriptorsOf(c.parameters) /\ p.name = dep.parameter
      BY <3>1, NameNames
    <3>3. dep.parameter \in DOMAIN raw /\ \E e \in dep.values : SameText(e, raw[dep.parameter])
      BY <2>1, <2>3 DEF IsParameterVisible
    <3>4. IsParameterVisible(p, raw)
      BY <1>2, <2>3 DEF Chained, IsParameterVisible
    <3>5. Legal(p, raw[dep.parameter])
      BY <3>2, <3>3, <3>4, GivenLegal
    <3> QED
      BY <3>2, <3>3, <3>4, <3>5, NormalizedKeeps
  <2> QED
    BY <2>3 DEF IsParameterVisible
<1> QED
  BY <1>1, <1>2, NormalizedValue DEF Stored

\* The check of a new request is made under the runtime setting, which touches inputs only.
LEMMA SameUnderCeiling ==
    ASSUME NEW v \in DOMAIN Declarations, NEW raw
    PROVE  LET c == Contracts[v]
               e == WithRuntimeCeiling(Contracts[v])
           IN /\ e.declared = c.declared
              /\ e.crossFieldConstraints = c.crossFieldConstraints
              /\ ValueRefusals(e, raw) = ValueRefusals(c, raw)
              /\ NormalizedParameters(e, raw) = NormalizedParameters(c, raw)
<1> DEFINE c == Contracts[v]
           e == WithRuntimeCeiling(c)
<1>1. DOMAIN c = DOMAIN Undeclared
  BY DeclarationAssumption DEF Contracts, CapabilitiesFromRow
<1>2. /\ e.declared = c.declared
      /\ e.parameters = c.parameters
      /\ e.defaults = c.defaults
      /\ e.crossFieldConstraints = c.crossFieldConstraints
  BY <1>1 DEF WithRuntimeCeiling, Undeclared
<1>3. \A d : ApiDefault(e, d) = ApiDefault(c, d)
  BY <1>2 DEF ApiDefault
<1>4. ValueRefusals(e, raw) = ValueRefusals(c, raw)
  <2> DEFINE Per(x, d) == IF d.name \notin DOMAIN raw
                          THEN IF d.required /\ ApiDefault(x, d) = {}
                               THEN {Issue("MISSING_REQUIRED_PARAMETER", {d.name})} ELSE {}
                          ELSE {Issue(code, {d.name}) : code \in ValueIssues(d, raw[d.name])}
             Seen(x) == {d \in DescriptorsOf(x.parameters) : IsParameterVisible(d, raw)}
  <2>1. \A d : Per(e, d) = Per(c, d)
    BY <1>3
  <2>2. Seen(e) = Seen(c)
    BY <1>2
  <2>3. UNION {Per(e, d) : d \in Seen(e)} = UNION {Per(c, d) : d \in Seen(c)}
    <3> HIDE DEF Per, Seen, c, e
    <3> QED
      BY <2>1, <2>2
  <2> HIDE DEF c, e
  <2> QED
    BY <1>2, <2>3 DEF ValueRefusals
<1>5. NormalizedParameters(e, raw) = NormalizedParameters(c, raw)
  BY <1>2, <1>3 DEF NormalizedParameters
<1> QED
  BY <1>2, <1>4, <1>5

LEMMA Ceiling ==
    ASSUME NEW v \in DOMAIN Declarations, NEW raw, NEW roles,
           ValidateGenerationRequest(WithRuntimeCeiling(Contracts[v]), raw, roles) = {}
    PROVE  /\ Contracts[v].declared
           /\ Stored(Contracts[v], NormalizedParameters(Contracts[v], raw))
<1> DEFINE c == Contracts[v]
           e == WithRuntimeCeiling(c)
<1>1. /\ e.declared
      /\ ValueRefusals(e, raw) = {}
      /\ EvaluateCrossFieldConstraints(e.crossFieldConstraints, NormalizedParameters(e, raw)) = {}
  BY DEF ValidateGenerationRequest
<1>2. /\ c.declared
      /\ ValueRefusals(c, raw) = {}
      /\ EvaluateCrossFieldConstraints(c.crossFieldConstraints, NormalizedParameters(c, raw)) = {}
  BY <1>1, SameUnderCeiling
<1> QED
  BY <1>2, ContractSound, CheckedIsStored

-----------------------------------------------------------------------------
(* What a gate may refuse. *)

\* A coupling looks at its two parameters only.
LEMMA SamePair ==
    ASSUME NEW r, r.type \in CouplingTypes, NEW X, NEW Y,
           Source(r) \in DOMAIN X \cap DOMAIN Y, r.pair[2] \in DOMAIN X \cap DOMAIN Y,
           X[Source(r)] = Y[Source(r)], X[r.pair[2]] = Y[r.pair[2]]
    PROVE  CrossFieldIssues(r, X) = CrossFieldIssues(r, Y)
<1>1. CASE r.type = "max_product"
  BY <1>1 DEF CrossFieldIssues
<1>2. CASE r.type = "mutually_exclusive"
  BY <1>2 DEF CrossFieldIssues
<1>3. CASE r.type = "requires"
  BY <1>3 DEF CrossFieldIssues
<1>4. CASE r.type = "forbidden"
  BY <1>4 DEF CrossFieldIssues, Source
<1> QED
  BY <1>1, <1>2, <1>3, <1>4 DEF CouplingTypes

LEMMA IssuePair ==
    ASSUME NEW r, NEW X, NEW i \in CrossFieldIssues(r, X)
    PROVE  i.about = {Source(r), r.pair[2]} /\ i.code \notin InputCodes
<1> DEFINE code == CASE r.type = "max_product"        -> "MAX_PRODUCT_EXCEEDED"
                     [] r.type = "mutually_exclusive" -> "MUTUALLY_EXCLUSIVE_PARAMETERS"
                     [] r.type = "requires"           -> "REQUIRED_FIELD_MISSING"
                     [] OTHER                         -> "MEDIA_PARAMETER_CONSTRAINT_FAILED"
<1>1. CrossFieldIssues(r, X) \in {{}, {Issue(code, {Source(r), r.pair[2]})}}
  BY Zenon DEF CrossFieldIssues
<1>2. code \notin InputCodes
  <2>1. code \in {"MAX_PRODUCT_EXCEEDED", "MUTUALLY_EXCLUSIVE_PARAMETERS", "REQUIRED_FIELD_MISSING",
                  "MEDIA_PARAMETER_CONSTRAINT_FAILED"}
    OBVIOUS
  <2> QED
    BY <2>1 DEF InputCodes
<1> HIDE DEF code
<1> QED
  BY <1>1, <1>2 DEF Issue

\* An issue of the parameters that the property allows.
Excused(c, given, i) ==
    \/ ~(i.about \subseteq DOMAIN given)
    \/ \E n \in i.about \cap DOMAIN given :
           \/ UncheckedDefault(c, n, given[n])
           \/ ~IsParameterVisible(Descriptor(c.parameters, n), given)

\* Parameters that are declared and legal, and that no coupling rules out together.
Right(c, given) ==
    /\ \A n \in DOMAIN given :
           /\ n \in NamesOf(c.parameters)
           /\ Legal(Descriptor(c.parameters, n), given[n]) \/ UncheckedDefault(c, n, given[n])
    /\ \A r \in c.crossFieldConstraints :
           \A i \in CrossFieldIssues(r, given) : ~(i.about \subseteq DOMAIN given)

\* A value is never refused with a code that is about images.
LEMMA ValueCodes ==
    ASSUME NEW d, NEW v
    PROVE  ValueIssues(d, v) \cap InputCodes = {}
<1>1. RangeIssues(d, v) \cap InputCodes = {}
  BY DEF RangeIssues, InputCodes
<1>2. TextIssues(d, v) \cap InputCodes = {}
  BY DEF TextIssues, InputCodes
<1>3. ImageSizeIssues(d, v) \cap InputCodes = {}
  <2> DEFINE Codes(g) == IF \E c \in d.constraints : ImageConstraintViolations(c, g[1], g[2]) # {}
                         THEN {"MEDIA_PARAMETER_CONSTRAINT_FAILED"} ELSE {}
             geometry == UNION {Codes(g) : g \in ParsedSize(v)}
  <2>1. geometry \subseteq {"MEDIA_PARAMETER_CONSTRAINT_FAILED"}
    OBVIOUS
  <2>2. ImageSizeIssues(d, v) \in {{"INVALID_PARAMETER_TYPE"}, {}, {"UNSUPPORTED_MEDIA_PARAMETER"},
                                   {"MEDIA_PARAMETER_CONSTRAINT_FAILED"}, geometry}
    BY Zenon DEF ImageSizeIssues
  <2> HIDE DEF geometry
  <2> QED
    BY <2>1, <2>2 DEF InputCodes
<1>4. CASE WrongType(d, v)
  BY <1>4 DEF ValueIssues, InputCodes
<1>5. CASE ~WrongType(d, v)
  <2>1. \/ d.type = "enum" \/ d.type \in {"integer", "number"} \/ d.type = "text" \/ d.type = "image-size"
        \/ d.type \notin {"enum", "integer", "number", "text", "image-size"}
    OBVIOUS
  <2> QED
    BY <1>1, <1>2, <1>3, <1>5, <2>1 DEF ValueIssues, InputCodes
<1> QED
  BY <1>4, <1>5

LEMMA ValuesExcused ==
    ASSUME NEW c, Sound(c), NEW given, Right(c, given), NEW i \in ValueRefusals(c, given)
    PROVE  Excused(c, given, i)
<1> DEFINE Per(e) == IF e.name \notin DOMAIN given
                     THEN IF e.required /\ ApiDefault(c, e) = {}
                          THEN {Issue("MISSING_REQUIRED_PARAMETER", {e.name})} ELSE {}
                     ELSE {Issue(code, {e.name}) : code \in ValueIssues(e, given[e.name])}
<1>1. PICK d \in DescriptorsOf(c.parameters) : i \in Per(d)
  BY DEF ValueRefusals, Right
<1>2. i.about = {d.name}
  BY <1>1 DEF Issue
<1>3. CASE d.name \notin DOMAIN given
  BY <1>2, <1>3 DEF Excused
<1>4. CASE d.name \in DOMAIN given
  <2>1. Descriptor(c.parameters, d.name) = d
    BY Named DEF Sound
  <2>2. ~Legal(d, given[d.name])
    BY <1>1, <1>4 DEF Legal
  <2> QED
    BY <1>2, <1>4, <2>1, <2>2 DEF Right, Excused
<1> QED
  BY <1>3, <1>4

LEMMA CouplingsExcused ==
    ASSUME NEW c, Sound(c), NEW given, Right(c, given),
           NEW i \in EvaluateCrossFieldConstraints(c.crossFieldConstraints, NormalizedParameters(c, given))
    PROVE  Excused(c, given, i)
<1> DEFINE all == NormalizedParameters(c, given)
<1>1. PICK r \in c.crossFieldConstraints : i \in CrossFieldIssues(r, all)
  BY DEF EvaluateCrossFieldConstraints
<1>2. i.about = {Source(r), r.pair[2]}
  BY <1>1, IssuePair
<1>3. SUFFICES ASSUME ~Excused(c, given, i)
               PROVE  FALSE
  OBVIOUS
<1>4. ASSUME NEW n \in i.about
      PROVE  n \in DOMAIN given \cap DOMAIN all /\ all[n] = given[n]
  <2> DEFINE d == Descriptor(c.parameters, n)
  <2>1. n \in DOMAIN given /\ IsParameterVisible(d, given) /\ ~UncheckedDefault(c, n, given[n])
    BY <1>3, <1>4 DEF Excused
  <2>2. n \in NamesOf(c.parameters) /\ Legal(d, given[n])
    BY <2>1 DEF Right
  <2>3. d \in DescriptorsOf(c.parameters) /\ d.name = n
    BY <2>2, NameNames
  <2> QED
    BY <2>1, <2>2, <2>3, NormalizedKeeps
<1>5. CrossFieldIssues(r, all) = CrossFieldIssues(r, given)
  BY <1>2, <1>4, SamePair DEF Sound
<1> QED
  BY <1>1, <1>2, <1>3, <1>5 DEF Right, Excused

\* The plugin's check of what is stored.
LEMMA PluginExcused ==
    ASSUME NEW c, Sound(c), NEW given, DOMAIN given \subseteq NamesOf(c.parameters), Right(c, given),
           EvaluateCrossFieldConstraints(c.crossFieldConstraints, given) = {},
           given = [n \in DOMAIN given |-> given[n]],
           NEW i \in ValidateAgainstDeclaration(c, given)
    PROVE  Excused(c, given, i)
<1> DEFINE Per(d) == IF d.name \notin DOMAIN given
                     THEN IF d.required /\ d.default = {}
                          THEN {Issue("MISSING_REQUIRED_PARAMETER", {d.name})} ELSE {}
                     ELSE {Issue(code, {d.name}) : code \in ValueIssues(d, given[d.name])}
<1>1. [n \in DOMAIN given \cap NamesOf(c.parameters) |-> given[n]] = given
  OBVIOUS
<1>2. PICK d \in DescriptorsOf(c.parameters) : i \in Per(d)
  <2>1. ValidateAgainstDeclaration(c, given)
          = EvaluateCrossFieldConstraints(c.crossFieldConstraints,
                [n \in DOMAIN given \cap NamesOf(c.parameters) |-> given[n]])
            \cup UNION {Per(d) : d \in DescriptorsOf(c.parameters)}
    BY DEF ValidateAgainstDeclaration
  <2> HIDE DEF Per
  <2>2. i \in UNION {Per(d) : d \in DescriptorsOf(c.parameters)}
    BY <1>1, <2>1
  <2> QED
    BY <2>2
<1>3. i.about = {d.name}
  BY <1>2 DEF Issue
<1>4. CASE d.name \notin DOMAIN given
  BY <1>3, <1>4 DEF Excused
<1>5. CASE d.name \in DOMAIN given
  <2>1. Descriptor(c.parameters, d.name) = d
    BY Named DEF Sound
  <2>2. ~Legal(d, given[d.name])
    BY <1>2, <1>5 DEF Legal
  <2> QED
    BY <1>3, <1>5, <2>1, <2>2 DEF Right, Excused
<1> QED
  BY <1>4, <1>5

-----------------------------------------------------------------------------
(* What the console sends. *)

\* No parameter of a contract goes by the name of another one in the console.
NoAliases ==
    \A v \in DOMAIN Declarations : \A n, m \in NamesOf(Contracts[v].parameters) :
        CanonicalNames[n] = m => n = m

LEMMA OnePick ==
    ASSUME NEW d, NEW state
    PROVE  \E x : Picked(d, state) \subseteq {x}
BY DEF Picked

LEMMA ShownDefaultLegal ==
    ASSUME NoAliases, NEW v \in DOMAIN Declarations, Sound(Contracts[v]),
           NEW d \in DescriptorsOf(Contracts[v].parameters),
           NEW x \in DescriptorDefault(Contracts[v], d)
    PROVE  Legal(d, x) \/ UncheckedDefault(Contracts[v], d.name, x)
<1> DEFINE c == Contracts[v]
<1>1. Descriptor(c.parameters, d.name) = d /\ d.name \in NamesOf(c.parameters)
  BY Named DEF Sound
<1>2. CASE x \in d.default
  BY <1>1, <1>2 DEF Sound, SoundParameters, UncheckedDefault
<1>3. CASE d.name \in DOMAIN c.defaults /\ x = c.defaults[d.name]
  BY <1>1, <1>3 DEF Sound
<1>4. CASE Canonical(d) \in DOMAIN c.defaults /\ x = c.defaults[Canonical(d)]
  <2>1. Canonical(d) \in NamesOf(c.parameters)
    BY <1>4 DEF Sound
  <2>2. Canonical(d) = d.name
    BY <1>1, <2>1 DEF NoAliases, Canonical
  <2> QED
    BY <1>1, <1>4, <2>2 DEF Sound
<1> QED
  BY <1>2, <1>3, <1>4 DEF DescriptorDefault

LEMMA ConsoleRight ==
    ASSUME NoAliases, NEW v \in DOMAIN Declarations, Sound(Contracts[v]),
           NEW state, ParameterIssues(Contracts[v], state) = {}
    PROVE  Right(Contracts[v], BuildMediaParameters(Contracts[v], state))
<1> DEFINE c         == Contracts[v]
           raw       == BuildMediaParameters(c, state)
           legal(d)  == {x \in Picked(d, state) : Legal(d, x)}
           value(d)  == IF legal(d) # {} THEN legal(d) ELSE DescriptorDefault(c, d)
           sent      == {d \in DescriptorsOf(c.parameters) : IsParameterVisible(d, state) /\ value(d) # {}}
           seen      == {d \in DescriptorsOf(c.parameters) : Picked(d, state) # {} /\ IsParameterVisible(d, state)}
           unset     == {d \in DescriptorsOf(c.parameters) : Picked(d, state) = {} /\ DescriptorDefault(c, d) # {}}
           effective == [n \in {d.name : d \in seen \cup unset} |->
                            LET d == Descriptor(c.parameters, n)
                            IN CHOOSE x \in (IF d \in seen THEN Picked(d, state)
                                             ELSE DescriptorDefault(c, d)) : TRUE]
<1>1. raw = [n \in {d.name : d \in sent} |-> CHOOSE x \in value(Descriptor(c.parameters, n)) : TRUE]
  BY DEF BuildMediaParameters
<1>2. {Issue("ILLEGAL", {d.name}) : d \in {s \in seen : ~Legal(s, effective[s.name])}}
        \cup EvaluateCrossFieldConstraints(c.crossFieldConstraints, effective) = {}
  BY DEF ParameterIssues
<1>3. ASSUME NEW n \in DOMAIN raw
      PROVE  LET d == Descriptor(c.parameters, n)
             IN /\ n \in NamesOf(c.parameters)
                /\ Legal(d, raw[n]) \/ raw[n] \in DescriptorDefault(c, d)
                /\ n \in DOMAIN effective /\ effective[n] = raw[n]
  <2>1. PICK d \in sent : d.name = n
    BY <1>1
  <2>2. Descriptor(c.parameters, n) = d /\ n \in NamesOf(c.parameters)
    BY <2>1, Named DEF Sound
  <2>3. raw[n] = CHOOSE x \in value(d) : TRUE
    BY <1>1, <2>2
  <2>4. raw[n] \in value(d)
    BY <2>1, <2>3
  <2>5. CASE d \in seen
    <3>1. n \in DOMAIN effective /\ effective[n] = CHOOSE x \in Picked(d, state) : TRUE
      BY <2>1, <2>2, <2>5
    <3>2. Legal(d, effective[n])
      BY <1>2, <2>1, <2>5
    <3>3. PICK x : Picked(d, state) = {x}
      BY <2>5, OnePick
    <3>4. effective[n] = x
      BY <3>1, <3>3
    <3>5. legal(d) = {x}
      BY <3>2, <3>3, <3>4
    <3>6. raw[n] = x
      BY <2>4, <3>5
    <3> QED
      BY <2>2, <3>1, <3>2, <3>4, <3>6
  <2>6. CASE d \notin seen
    <3>1. Picked(d, state) = {}
      BY <2>1, <2>6
    <3>2. legal(d) = {}
      BY <3>1
    <3>3. raw[n] \in DescriptorDefault(c, d) /\ raw[n] = CHOOSE x \in DescriptorDefault(c, d) : TRUE
      BY <2>3, <2>4, <3>2
    <3>4. d \in unset
      BY <2>1, <3>1, <3>3
    <3>5. n \in DOMAIN effective /\ effective[n] = CHOOSE x \in DescriptorDefault(c, d) : TRUE
      BY <2>1, <2>2, <2>6, <3>4
    <3> QED
      BY <2>2, <3>3, <3>5
  <2> QED
    BY <2>5, <2>6
<1> HIDE DEF raw, effective, seen
<1>4. ASSUME NEW n \in DOMAIN raw
      PROVE  /\ n \in NamesOf(c.parameters)
             /\ Legal(Descriptor(c.parameters, n), raw[n]) \/ UncheckedDefault(c, n, raw[n])
  <2> DEFINE d == Descriptor(c.parameters, n)
  <2>1. n \in NamesOf(c.parameters) /\ d \in DescriptorsOf(c.parameters) /\ d.name = n
    BY <1>3, <1>4, NameNames
  <2>2. Legal(d, raw[n]) \/ raw[n] \in DescriptorDefault(c, d)
    BY <1>3, <1>4
  <2> QED
    BY <2>1, <2>2, ShownDefaultLegal
<1>5. ASSUME NEW r \in c.crossFieldConstraints, NEW i \in CrossFieldIssues(r, raw), i.about \subseteq DOMAIN raw
      PROVE  FALSE
  <2>1. i.about = {Source(r), r.pair[2]}
    BY <1>5, IssuePair
  <2>2. CrossFieldIssues(r, raw) = CrossFieldIssues(r, effective)
    BY <1>3, <1>5, <2>1, SamePair DEF Sound
  <2>3. CrossFieldIssues(r, effective) = {}
    BY <1>2, <1>5 DEF EvaluateCrossFieldConstraints
  <2> QED
    BY <1>5, <2>2, <2>3
<1> QED
  BY <1>4, <1>5 DEF Right, raw

-----------------------------------------------------------------------------
(* The staged images. *)

\* Every slot of a contract takes an image, and no two slots have the same role.
PlainSlots ==
    \A v \in DOMAIN Declarations :
        /\ \A s \in DOMAIN Contracts[v].inputSlots : Contracts[v].inputSlots[s].maxCount > 0
        /\ \A s, t \in DOMAIN Contracts[v].inputSlots :
               Contracts[v].inputSlots[s].role = Contracts[v].inputSlots[t].role => s = t

\* The images have slots, and are not too many for them.
Fit(c, roles) ==
    /\ \A i \in DOMAIN roles : \E s \in DOMAIN c.inputSlots : c.inputSlots[s].role = roles[i]
    /\ \A s \in DOMAIN c.inputSlots : ~(Times(roles, c.inputSlots[s].role) > c.inputSlots[s].maxCount)

\* Then only too few are refused.
LEMMA FitRefusals ==
    ASSUME NEW c, NEW roles, Fit(c, roles), NEW i \in InputRefusals(c, roles)
    PROVE  \/ i.code = "INPUT_COUNT_TOO_LOW"
           \/ /\ i.code = "MISSING_REQUIRED_INPUT"
              /\ \E role : i.about = {role} /\ Times(roles, role) = 0
BY DEF InputRefusals, Fit, Issue

LEMMA RefusedUnlessFit ==
    ASSUME NEW c, NEW roles, InputRefusals(c, roles) = {}
    PROVE  /\ \A i \in DOMAIN roles : \E s \in DOMAIN c.inputSlots : c.inputSlots[s].role = roles[i]
           /\ \A s \in DOMAIN c.inputSlots :
                  \/ ~(Times(roles, c.inputSlots[s].role) > c.inputSlots[s].maxCount)
                  \/ c.inputSlots[s].required /\ Times(roles, c.inputSlots[s].role) = 0
<1> DEFINE slots    == {c.inputSlots[i] : i \in DOMAIN c.inputSlots}
           absent   == {s \in slots : s.required /\ Times(roles, s.role) = 0}
           too(few) == {Issue(IF few THEN "INPUT_COUNT_TOO_LOW" ELSE "INPUT_COUNT_EXCEEDED", {s.role}) :
                           s \in {t \in slots \ absent : IF few THEN Times(roles, t.role) < t.minCount
                                                       ELSE Times(roles, t.role) > t.maxCount}}
<1>1. /\ {j \in DOMAIN roles : \A s \in slots : s.role # roles[j]} = {}
      /\ too(FALSE) = {}
  BY DEF InputRefusals
<1>2. \A t \in slots \ absent : ~(Times(roles, t.role) > t.maxCount)
  BY <1>1
<1> QED
  BY <1>1, <1>2

\* How often a role occurs is a number, and no more than there are images.
LEMMA TimesBound ==
    ASSUME NEW S, NEW roles \in Seq(S), NEW role
    PROVE  Times(roles, role) \in Nat /\ Times(roles, role) <= Len(roles)
<1>1. /\ IsFiniteSet(1 .. Len(roles))
      /\ Cardinality(1 .. Len(roles)) = Len(roles)
  <2>1. Len(roles) \in Nat
    OBVIOUS
  <2>2. 1 \in Int /\ Len(roles) \in Int
    BY <2>1
  <2> QED
    BY <2>1, <2>2, FS_Interval
<1>2. {i \in DOMAIN roles : roles[i] = role} \subseteq 1 .. Len(roles)
  OBVIOUS
<1> QED
  BY <1>1, <1>2, FS_Subset, FS_CardinalityType DEF Times

LEMMA NoneOf ==
    ASSUME NEW roles, NEW role, \A i \in DOMAIN roles : roles[i] # role
    PROVE  Times(roles, role) = 0
<1>1. {i \in DOMAIN roles : roles[i] = role} = {}
  OBVIOUS
<1> QED
  BY <1>1, FS_EmptySet DEF Times

LEMMA SlotFields ==
    ASSUME NEW v \in DOMAIN Declarations, NEW s \in DOMAIN Contracts[v].inputSlots
    PROVE  /\ DOMAIN Contracts[v].inputSlots[s] = DOMAIN Slot("mask", TRUE, 1)
           /\ Contracts[v].inputSlots[s].maxCount \in Nat
<1>1. Contracts[v] = CapabilitiesFromRow(Declarations[v])
  BY DEF Contracts
<1>2. \/ Contracts[v].inputSlots = <<>>
      \/ Contracts[v].inputSlots = Declarations[v].inputSlots
  BY <1>1, DeclarationAssumption DEF CapabilitiesFromRow, Undeclared
<1>3. Contracts[v].inputSlots = Declarations[v].inputSlots
  BY <1>2
<1>4. \A i \in DOMAIN Declarations[v].inputSlots :
         /\ DOMAIN Declarations[v].inputSlots[i] = DOMAIN Slot("mask", TRUE, 1)
         /\ Declarations[v].inputSlots[i].maxCount \in Nat
  BY DeclarationAssumption
<1> QED
  BY <1>3, <1>4

\* The runtime setting lowers how many images a slot takes, and changes nothing else.
LEMMA CappedSlots ==
    ASSUME NEW v \in DOMAIN Declarations
    PROVE  LET slots  == Contracts[v].inputSlots
               capped == WithRuntimeCeiling(Contracts[v]).inputSlots
           IN /\ DOMAIN capped = DOMAIN slots
              /\ \A s \in DOMAIN slots :
                     /\ capped[s].role = slots[s].role
                     /\ capped[s].maxCount \in {slots[s].maxCount, MaxInputs}
                     /\ capped[s].maxCount <= slots[s].maxCount
<1> DEFINE c == Contracts[v]
<1>1. DOMAIN c = DOMAIN Undeclared
  BY DeclarationAssumption DEF Contracts, CapabilitiesFromRow
<1>2. WithRuntimeCeiling(c).inputSlots = [i \in DOMAIN c.inputSlots |-> Capped(c.inputSlots[i])]
  BY <1>1 DEF WithRuntimeCeiling, Undeclared
<1>3. ASSUME NEW s \in DOMAIN c.inputSlots
      PROVE  /\ Capped(c.inputSlots[s]).role = c.inputSlots[s].role
             /\ Capped(c.inputSlots[s]).maxCount \in {c.inputSlots[s].maxCount, MaxInputs}
             /\ Capped(c.inputSlots[s]).maxCount <= c.inputSlots[s].maxCount
  <2>1. DOMAIN c.inputSlots[s] = {"role", "required", "minCount", "maxCount", "kinds"}
    BY SlotFields DEF Slot
  <2>2. c.inputSlots[s].maxCount \in Nat /\ MaxInputs \in Nat
    BY SlotFields, RequestAssumption
  <2> QED
    BY <2>1, <2>2 DEF Capped
<1> QED
  BY <1>2, <1>3

LEMMA ConsoleFit ==
    ASSUME PlainSlots, NEW v \in DOMAIN Declarations, NEW S, NEW roles \in Seq(S),
           ~InputPlanViolated(Contracts[v], roles)
    PROVE  Fit(WithRuntimeCeiling(Contracts[v]), roles)
<1> DEFINE c == Contracts[v]
<1>1. /\ Len(roles) <= MaxInputs /\ MaxInputs \in Nat
      /\ ~(Times(roles, "first_frame") > 1) /\ ~(Times(roles, "last_frame") > 1)
  BY RequestAssumption DEF InputPlanViolated, Times
<1>2. /\ \A s \in DOMAIN c.inputSlots : c.inputSlots[s].maxCount \in Nat /\ c.inputSlots[s].maxCount > 0
      /\ \A s, t \in DOMAIN c.inputSlots : c.inputSlots[s].role = c.inputSlots[t].role => s = t
  <2>1. \A s \in DOMAIN c.inputSlots : c.inputSlots[s].maxCount \in Nat
    BY SlotFields
  <2> QED
    BY <2>1 DEF PlainSlots
<1>3. ASSUME NEW i \in DOMAIN roles
      PROVE  \E s \in DOMAIN c.inputSlots :
                 /\ c.inputSlots[s].role = roles[i]
                 /\ Times(roles, roles[i]) <= c.inputSlots[s].maxCount
  <2>1. PICK slot \in SlotOf(c, roles[i]) :
            \/ slot.role \in {"first_frame", "last_frame"} /\ slot.maxCount <= 1
            \/ ~(Times(roles, roles[i]) > slot.maxCount)
    BY DEF InputPlanViolated
  <2>2. PICK s \in DOMAIN c.inputSlots : slot = c.inputSlots[s] /\ slot.role = roles[i]
    BY <2>1 DEF SlotOf
  <2>3. slot.maxCount \in Nat /\ slot.maxCount > 0
    BY <1>2, <2>2
  <2>4. Times(roles, roles[i]) \in Nat
    BY TimesBound
  <2> QED
    BY <1>1, <2>1, <2>2, <2>3, <2>4
<1>4. ASSUME NEW s \in DOMAIN c.inputSlots
      PROVE  Times(roles, c.inputSlots[s].role) <= c.inputSlots[s].maxCount
  <2>1. CASE \A i \in DOMAIN roles : roles[i] # c.inputSlots[s].role
    BY <1>2, <2>1, NoneOf
  <2>2. CASE \E i \in DOMAIN roles : roles[i] = c.inputSlots[s].role
    BY <1>3, <1>2, <2>2
  <2> QED
    BY <2>1, <2>2
<1>5. ASSUME NEW s \in DOMAIN c.inputSlots
      PROVE  LET most == WithRuntimeCeiling(c).inputSlots[s].maxCount
             IN ~(Times(roles, c.inputSlots[s].role) > most)
  <2>1. /\ Times(roles, c.inputSlots[s].role) \in Nat
        /\ Times(roles, c.inputSlots[s].role) <= Len(roles)
        /\ Len(roles) \in Nat
    BY TimesBound
  <2>2. c.inputSlots[s].maxCount \in Nat
    BY SlotFields
  <2> QED
    BY <1>1, <1>4, <2>1, <2>2, CappedSlots
<1> QED
  BY <1>3, <1>5, CappedSlots DEF Fit

LEMMA CheckedFit ==
    ASSUME NEW v \in DOMAIN Declarations, NEW S, NEW roles \in Seq(S),
           InputRefusals(WithRuntimeCeiling(Contracts[v]), roles) = {}
    PROVE  Fit(Contracts[v], roles)
<1> DEFINE c == Contracts[v]
<1>1. ASSUME NEW s \in DOMAIN c.inputSlots
      PROVE  ~(Times(roles, c.inputSlots[s].role) > c.inputSlots[s].maxCount)
  <2>1. Times(roles, c.inputSlots[s].role) \in Nat /\ c.inputSlots[s].maxCount \in Nat /\ MaxInputs \in Nat
    BY TimesBound, SlotFields, RequestAssumption
  <2> QED
    BY <2>1, CappedSlots, RefusedUnlessFit
<1> QED
  BY <1>1, CappedSlots, RefusedUnlessFit DEF Fit

-----------------------------------------------------------------------------
(* A gate refuses what its request left out. *)

IsList(s) == s \in Seq({s[i] : i \in DOMAIN s})

LEMMA TimesNone ==
    ASSUME NEW roles, IsList(roles), NEW role, Times(roles, role) = 0
    PROVE  role \notin {roles[k] : k \in DOMAIN roles}
<1> DEFINE at == {i \in DOMAIN roles : roles[i] = role}
<1>1. DOMAIN roles = 1 .. Len(roles) /\ Len(roles) \in Nat
  BY DEF IsList
<1>2. IsFiniteSet(1 .. Len(roles))
  <2>1. 1 \in Int /\ Len(roles) \in Int
    BY <1>1
  <2> QED
    BY <2>1, FS_Interval
<1>3. IsFiniteSet(at)
  BY <1>1, <1>2, FS_Subset
<1>4. at = {}
  BY <1>3, FS_EmptySet DEF Times
<1> QED
  BY <1>4

LEMMA ExcusedExpected ==
    ASSUME NEW v, NEW b, NEW given, NEW roles, NEW issues, NEW i,
           i.code \notin InputCodes, Excused(Contracts[v], given, i)
    PROVE  Expected(Refused(v, b, given, roles, issues), i)
<1> DEFINE r == Refused(v, b, given, roles, issues)
<1>1. r.contract = v /\ r.given = given
  BY DEF Refused
<1>2. GivenOf(r, i) = i.about \cap DOMAIN given
  BY <1>1 DEF GivenOf
<1> HIDE DEF r
<1>3. Expected(r, i)
  BY <1>1, <1>2 DEF Excused, Expected
<1> QED
  BY <1>3 DEF r

LEMMA InputsExpected ==
    ASSUME NEW v, NEW b, NEW given, NEW roles, IsList(roles), NEW issues,
           NEW e, Fit(e, roles), NEW i \in InputRefusals(e, roles)
    PROVE  Expected(Refused(v, b, given, roles, issues), i)
<1> DEFINE r == Refused(v, b, given, roles, issues)
<1>1. CASE i.code = "INPUT_COUNT_TOO_LOW"
  BY <1>1 DEF Expected, LeftToTheApi
<1>2. CASE i.code = "MISSING_REQUIRED_INPUT"
  <2>1. PICK role : i.about = {role} /\ Times(roles, role) = 0
    BY <1>2, FitRefusals
  <2>2. role \notin {roles[k] : k \in DOMAIN roles}
    BY <2>1, TimesNone
  <2>3. r.inputs = roles
    BY DEF Refused
  <2>4. i.code \in InputCodes
    BY <1>2 DEF InputCodes
  <2> HIDE DEF r
  <2>5. GivenOf(r, i) = i.about \cap {roles[k] : k \in DOMAIN roles}
    BY <2>3, <2>4 DEF GivenOf
  <2>6. GivenOf(r, i) # i.about
    BY <2>1, <2>2, <2>5
  <2>7. Expected(r, i)
    BY <2>6 DEF Expected
  <2> QED
    BY <2>7 DEF r
<1> QED
  BY <1>1, <1>2, FitRefusals

LEMMA ValueRefusalCodes ==
    ASSUME NEW c, NEW raw, NEW i \in ValueRefusals(c, raw)
    PROVE  i.code \notin InputCodes
<1> DEFINE Per(e) == IF e.name \notin DOMAIN raw
                     THEN IF e.required /\ ApiDefault(c, e) = {}
                          THEN {Issue("MISSING_REQUIRED_PARAMETER", {e.name})} ELSE {}
                     ELSE {Issue(code, {e.name}) : code \in ValueIssues(e, raw[e.name])}
<1>1. \/ \E n : i = Issue("UNKNOWN_PARAMETER", {n})
      \/ \E d \in DescriptorsOf(c.parameters) : i \in Per(d)
  BY DEF ValueRefusals
<1>2. CASE \E n : i = Issue("UNKNOWN_PARAMETER", {n})
  BY <1>2 DEF Issue, InputCodes
<1>3. CASE \E d \in DescriptorsOf(c.parameters) : i \in Per(d)
  <2>1. PICK d \in DescriptorsOf(c.parameters) : i \in Per(d)
    BY <1>3
  <2>2. i = Issue("MISSING_REQUIRED_PARAMETER", {d.name})
          \/ \E code \in ValueIssues(d, raw[d.name]) : i = Issue(code, {d.name})
    BY <2>1
  <2> QED
    BY <2>2, ValueCodes DEF Issue, InputCodes
<1> QED
  BY <1>1, <1>2, <1>3

\* The check of the API, of a new request and of a retry.
LEMMA CheckExpected ==
    ASSUME NEW v \in DOMAIN Declarations, NEW e,
           \/ e = Contracts[v] \/ e = WithRuntimeCeiling(Contracts[v]),
           NEW given, Contracts[v].declared => Right(Contracts[v], given),
           NEW roles, IsList(roles), Fit(e, roles), NEW b, NEW issues,
           NEW i \in ValidateGenerationRequest(e, given, roles)
    PROVE  Expected(Refused(v, b, given, roles, issues), i)
<1> DEFINE c == Contracts[v]
           r == Refused(v, b, given, roles, issues)
<1>1. /\ e.declared = c.declared
      /\ e.crossFieldConstraints = c.crossFieldConstraints
      /\ ValueRefusals(e, given) = ValueRefusals(c, given)
      /\ NormalizedParameters(e, given) = NormalizedParameters(c, given)
  BY SameUnderCeiling
<1>2. CASE i.code \in LeftToTheApi
  BY <1>2 DEF Expected
<1>3. CASE i.code \notin LeftToTheApi
  <2>1. c.declared /\ Sound(c) /\ Right(c, given)
    BY <1>1, <1>3, ContractSound DEF ValidateGenerationRequest, Issue, LeftToTheApi
  <2>2. \/ i \in ValueRefusals(c, given)
        \/ i \in EvaluateCrossFieldConstraints(c.crossFieldConstraints, NormalizedParameters(c, given))
        \/ i \in InputRefusals(e, roles)
    <3>1. \A about : /\ i # Issue("INVALID_COUNT", about)
                     /\ i # Issue("UNSUPPORTED_GENERATION_MODE", about)
      BY <1>3 DEF Issue, LeftToTheApi
    <3>2. i \notin CountRefusals(e, NormalizedParameters(c, given))
      BY <3>1 DEF CountRefusals
    <3> QED
      BY <1>1, <2>1, <3>1, <3>2 DEF ValidateGenerationRequest
  <2>3. CASE i \in ValueRefusals(c, given)
    BY <2>1, <2>3, ValuesExcused, ValueRefusalCodes, ExcusedExpected
  <2>4. CASE i \in EvaluateCrossFieldConstraints(c.crossFieldConstraints, NormalizedParameters(c, given))
    <3>1. i.code \notin InputCodes
      BY <2>4, IssuePair DEF EvaluateCrossFieldConstraints
    <3> QED
      BY <2>1, <2>4, <3>1, CouplingsExcused, ExcusedExpected
  <2>5. CASE i \in InputRefusals(e, roles)
    BY <2>5, InputsExpected
  <2> QED
    BY <2>2, <2>3, <2>4, <2>5
<1> QED
  BY <1>2, <1>3

LEMMA PluginCodes ==
    ASSUME NEW c, NEW sent, NEW i \in ValidateAgainstDeclaration(c, sent)
    PROVE  i.code \notin InputCodes
<1> DEFINE Per(e) == IF e.name \notin DOMAIN sent
                     THEN IF e.required /\ e.default = {}
                          THEN {Issue("MISSING_REQUIRED_PARAMETER", {e.name})} ELSE {}
                     ELSE {Issue(code, {e.name}) : code \in ValueIssues(e, sent[e.name])}
           couplings == EvaluateCrossFieldConstraints(c.crossFieldConstraints,
                            [n \in DOMAIN sent \cap NamesOf(c.parameters) |-> sent[n]])
<1>1. ValidateAgainstDeclaration(c, sent) = couplings \cup UNION {Per(d) : d \in DescriptorsOf(c.parameters)}
  BY DEF ValidateAgainstDeclaration
<1>2. ASSUME i \in couplings
      PROVE  i.code \notin InputCodes
  <2>1. \A X : i \in EvaluateCrossFieldConstraints(c.crossFieldConstraints, X) => i.code \notin InputCodes
    BY IssuePair DEF EvaluateCrossFieldConstraints
  <2> QED
    BY <1>2, <2>1
<1>3. ASSUME NEW d \in DescriptorsOf(c.parameters), i \in Per(d)
      PROVE  i.code \notin InputCodes
  <2>1. i = Issue("MISSING_REQUIRED_PARAMETER", {d.name})
          \/ \E code \in ValueIssues(d, sent[d.name]) : i = Issue(code, {d.name})
    BY <1>3
  <2> QED
    BY <2>1, ValueCodes DEF Issue, InputCodes
<1>4. i \in couplings \/ \E d \in DescriptorsOf(c.parameters) : i \in Per(d)
  <2> HIDE DEF Per, couplings
  <2> QED
    BY <1>1
<1> HIDE DEF Per, couplings
<1> QED
  BY <1>2, <1>3, <1>4

LEMMA StoredRight ==
    ASSUME NEW c, NEW parameters, Stored(c, parameters)
    PROVE  Right(c, parameters) /\ DOMAIN parameters \subseteq NamesOf(c.parameters)
<1>1. \A r \in c.crossFieldConstraints : CrossFieldIssues(r, parameters) = {}
  BY DEF Stored, EvaluateCrossFieldConstraints
<1> QED
  BY <1>1 DEF Stored, Right

-----------------------------------------------------------------------------
(* The invariant. *)

\* A request that was checked was found right under the revision it was checked against.
CheckedRequest ==
    request # None =>
        /\ DOMAIN request = {"parameters", "inputs", "checked"}
        /\ \A v \in request.checked :
               /\ v \in DOMAIN Declarations
               /\ ValidateGenerationRequest(WithRuntimeCeiling(Contracts[v]),
                                            request.parameters, request.inputs) = {}

StoredJob == job # None => /\ job.checked \in DOMAIN Declarations
                           /\ Contracts[job.checked].declared
                           /\ Stored(Contracts[job.checked], job.parameters)

RequestInv == published \in DOMAIN Declarations /\ CheckedRequest /\ StoredJob

LEMMA RequestStarts == RequestInit => RequestInv
BY DEF RequestInit, RequestInv, CheckedRequest, StoredJob

LEMMA RequestSteps ==
    ASSUME RequestInv, [RequestNext]_requestVars
    PROVE  RequestInv'
<1> USE DEF ConsoleUnchanged, ServerUnchanged
<1>1. CASE Operate
  <2>1. UNCHANGED <<published, job>>
    BY <1>1 DEF Operate, Pick, Stage, Reconcile, Refetch, Submit
  <2>2. CheckedRequest'
    <3>1. CASE Submit
      BY <3>1 DEF Submit, CheckedRequest
    <3>2. CASE UNCHANGED request
      BY <3>2 DEF RequestInv, CheckedRequest
    <3> QED
      BY <1>1, <3>1, <3>2 DEF Operate, Pick, Stage, Reconcile, Refetch
  <2> QED
    BY <2>1, <2>2 DEF RequestInv, StoredJob
<1>2. CASE Check
  <2>1. CheckedRequest'
    BY <1>2 DEF Check, RequestInv, CheckedRequest
  <2> QED
    BY <1>2, <2>1 DEF Check, RequestInv, StoredJob
<1>3. CASE Create
  <2>1. PICK v \in request.checked :
            job' = [parameters |-> NormalizedParameters(Contracts[v], request.parameters),
                    inputs |-> request.inputs, checked |-> v, pinned |-> published]
    BY <1>3 DEF Create
  <2>2. /\ v \in DOMAIN Declarations
        /\ ValidateGenerationRequest(WithRuntimeCeiling(Contracts[v]), request.parameters, request.inputs) = {}
    BY <1>3, <2>1 DEF Create, RequestInv, CheckedRequest
  <2>3. StoredJob'
    BY <2>1, <2>2, Ceiling DEF StoredJob
  <2> QED
    BY <1>3, <2>3 DEF Create, RequestInv, CheckedRequest
<1>4. CASE Retry \/ Dispatch
  BY <1>4 DEF Retry, Dispatch, RequestInv, CheckedRequest, StoredJob
<1>5. CASE \E v \in DOMAIN Declarations : Publish(v)
  BY <1>5 DEF Publish, RequestInv, CheckedRequest, StoredJob
<1>6. CASE UNCHANGED requestVars
  BY <1>6 DEF requestVars, RequestInv, CheckedRequest, StoredJob
<1> QED
  BY <1>1, <1>2, <1>3, <1>4, <1>5, <1>6 DEF RequestNext

\* What a job carries is legal under the contract it was checked against, for any contracts:
\* what a declaration without findings admits by its own defaults included.
THEOREM StoredStaysLegal == RequestSpec => []StoredParametersLegal
<1>1. RequestInv => StoredParametersLegal
  BY DEF RequestInv, StoredJob, Stored, StoredParametersLegal
<1> QED
  BY <1>1, RequestStarts, RequestSteps, PTL DEF RequestSpec

-----------------------------------------------------------------------------
(* What is refused, under one and the same contract. *)

Lists == IsList(staged) /\ (request # None => IsList(request.inputs)) /\ (job # None => IsList(job.inputs))

\* What the console sent is right under the revision it has.
SentRequest ==
    request # None /\ request.checked = {} =>
        /\ Fit(WithRuntimeCeiling(Carrier), request.inputs)
        /\ Carrier.declared => Right(Carrier, request.parameters)

\* What is stored fits under the revision it was checked against.
KeptJob ==
    job # None =>
        /\ Fit(Contracts[job.checked], job.inputs)
        /\ job.parameters = [n \in DOMAIN job.parameters |-> job.parameters[n]]

Gates == RequestInv /\ listed \in DOMAIN Declarations /\ Lists /\ SentRequest /\ KeptJob
         /\ RefusedForWhatIsMissing

LEMMA GatesStart == RequestInit => Gates
<1> SUFFICES ASSUME RequestInit
             PROVE  Gates
  OBVIOUS
<1>1. IsList(<<>>)
  BY DEF IsList
<1> QED
  BY <1>1, RequestStarts DEF RequestInit, Gates, Lists, SentRequest, KeptJob, RefusedForWhatIsMissing

LEMMA StagedList ==
    ASSUME NEW carrier, NEW roles, IsList(roles)
    PROVE  IsList(ReconcileStagedRoles(carrier, roles))
<1> DEFINE s == ReconcileStagedRoles(carrier, roles)
<1>1. DOMAIN roles = 1 .. Len(roles) /\ Len(roles) \in Nat
  BY DEF IsList
<1>2. s = [i \in 1 .. Len(roles) |-> s[i]]
  BY <1>1 DEF ReconcileStagedRoles
<1> HIDE DEF s
<1>3. IsList(s)
  BY <1>1, <1>2 DEF IsList
<1> QED
  BY <1>3 DEF s

LEMMA CreatedJob ==
    ASSUME RequestInv, Lists, Create
    PROVE  KeptJob' /\ (job' # None => IsList(job'.inputs))
<1>1. PICK v \in request.checked :
          job' = [parameters |-> NormalizedParameters(Contracts[v], request.parameters),
                  inputs |-> request.inputs, checked |-> v, pinned |-> published]
  BY DEF Create
<1>2. /\ request # None
      /\ v \in DOMAIN Declarations
      /\ ValidateGenerationRequest(WithRuntimeCeiling(Contracts[v]), request.parameters, request.inputs) = {}
  BY <1>1 DEF Create, RequestInv, CheckedRequest
<1>3. InputRefusals(WithRuntimeCeiling(Contracts[v]), request.inputs) = {}
  BY <1>2 DEF ValidateGenerationRequest
<1>4. IsList(request.inputs)
  BY <1>2 DEF Lists
<1>5. Fit(Contracts[v], request.inputs)
  BY <1>2, <1>3, <1>4, CheckedFit DEF IsList
<1>6. ASSUME NEW c, NEW raw
      PROVE  LET all == NormalizedParameters(c, raw) IN all = [n \in DOMAIN all |-> all[n]]
  BY DEF NormalizedParameters
<1>7. /\ job'.parameters = NormalizedParameters(Contracts[v], request.parameters)
      /\ job'.inputs = request.inputs /\ job'.checked = v
  BY <1>1
<1> QED
  BY <1>4, <1>5, <1>6, <1>7 DEF KeptJob

LEMMA SubmittedRequest ==
    ASSUME NoAliases, PlainSlots, listed \in DOMAIN Declarations, Lists, Submit
    PROVE  SentRequest' /\ (request' # None => IsList(request'.inputs))
<1>1. /\ request'.parameters = BuildMediaParameters(Carrier, panel) /\ request'.inputs = staged
      /\ UNCHANGED listed
      /\ ParameterIssues(Carrier, panel) = {} /\ ~InputPlanViolated(Carrier, staged)
  BY DEF Submit, ConsoleUnchanged
<1>2. IsList(staged)
  BY DEF Lists
<1>3. Fit(WithRuntimeCeiling(Carrier), staged)
  BY <1>1, <1>2, ConsoleFit DEF Carrier, IsList
<1>4. Carrier.declared => Right(Carrier, BuildMediaParameters(Carrier, panel))
  BY <1>1, ContractSound, ConsoleRight DEF Carrier
<1>5. Carrier' = Carrier
  BY <1>1 DEF Carrier, Contracts
<1> QED
  BY <1>1, <1>2, <1>3, <1>4, <1>5 DEF SentRequest

LEMMA RefusedByCheck ==
    ASSUME Gates, Check
    PROVE  RefusedForWhatIsMissing'
<1> DEFINE e == WithRuntimeCeiling(Contracts[published])
           issues == ValidateGenerationRequest(e, request.parameters, request.inputs)
<1>1. CASE issues = {}
  BY <1>1 DEF Check, Gates, RefusedForWhatIsMissing
<1>2. CASE issues # {}
  <2>1. refusals' = Refused(published, listed, request.parameters, request.inputs, issues)
    BY <1>2 DEF Check
  <2> HIDE DEF issues
  <2>2. refusals'.issues = issues /\ (refusals'.agreed <=> published = listed)
    BY <2>1 DEF Refused
  <2>3. ASSUME published = listed, NEW i \in issues
        PROVE  Expected(Refused(published, listed, request.parameters, request.inputs, issues), i)
    <3>1. /\ published \in DOMAIN Declarations /\ IsList(request.inputs)
          /\ Fit(e, request.inputs)
          /\ Contracts[published].declared => Right(Contracts[published], request.parameters)
      BY <2>3 DEF Gates, RequestInv, Lists, SentRequest, Check, Carrier
    <3>2. i \in ValidateGenerationRequest(e, request.parameters, request.inputs)
      BY <2>3 DEF issues
    <3> QED
      BY <3>1, <3>2, CheckExpected
  <2> QED
    BY <2>1, <2>2, <2>3 DEF RefusedForWhatIsMissing
<1> QED
  BY <1>1, <1>2

LEMMA RefusalExpected ==
    ASSUME NEW v, NEW b, NEW given, NEW roles, NEW issues,
           NEW r, r = Refused(v, b, given, roles, issues),
           v = b => \A i \in issues : Expected(r, i)
    PROVE  r.agreed => \A i \in r.issues : Expected(r, i)
BY DEF Refused

LEMMA RefusedByRetry ==
    ASSUME Gates, Retry \/ Dispatch
    PROVE  RefusedForWhatIsMissing'
<1> DEFINE v == job.pinned
           c == Contracts[v]
           issues(retry) == IF retry THEN ValidateGenerationRequest(c, job.parameters, job.inputs)
                            ELSE ValidateAgainstDeclaration(c, job.parameters)
           r(retry) == Refused(v, job.checked, job.parameters, job.inputs, issues(retry))
<1>1. job # None
  BY DEF Retry, Dispatch
<1>2. \E retry \in BOOLEAN : refusals' \in {None, r(retry)}
  BY DEF Retry, Dispatch
<1>3. ASSUME v = job.checked, NEW retry \in BOOLEAN, NEW i \in issues(retry)
      PROVE  Expected(r(retry), i)
  <2>1. /\ v \in DOMAIN Declarations /\ c.declared
        /\ Stored(c, job.parameters) /\ Fit(c, job.inputs) /\ IsList(job.inputs)
        /\ job.parameters = [n \in DOMAIN job.parameters |-> job.parameters[n]]
    BY <1>1, <1>3 DEF Gates, RequestInv, StoredJob, KeptJob, Lists
  <2>2. Right(c, job.parameters) /\ DOMAIN job.parameters \subseteq NamesOf(c.parameters)
    BY <2>1, StoredRight
  <2>3. CASE retry
    <3>1. i \in ValidateGenerationRequest(c, job.parameters, job.inputs)
      BY <1>3, <2>3
    <3> HIDE DEF issues
    <3> QED
      BY <2>1, <2>2, <3>1, CheckExpected
  <2>4. CASE ~retry
    <3>1. i \in ValidateAgainstDeclaration(c, job.parameters)
      BY <1>3, <2>4
    <3>2. i.code \notin InputCodes
      BY <3>1, PluginCodes
    <3>3. EvaluateCrossFieldConstraints(c.crossFieldConstraints, job.parameters) = {}
      BY <2>1 DEF Stored
    <3>4. Excused(c, job.parameters, i)
      BY <2>1, <2>2, <3>1, <3>3, ContractSound, PluginExcused
    <3> HIDE DEF issues
    <3> QED
      BY <3>2, <3>4, ExcusedExpected
  <2> QED
    BY <2>3, <2>4
<1>4. PICK retry \in BOOLEAN : refusals' \in {None, r(retry)}
  BY <1>2
<1>5. refusals' = r(retry) => (refusals'.agreed => \A i \in refusals'.issues : Expected(refusals', i))
  <2> HIDE DEF issues
  <2> QED
    BY <1>3, RefusalExpected
<1> HIDE DEF r, issues
<1>6. CASE refusals' = None
  BY <1>6 DEF RefusedForWhatIsMissing
<1>7. CASE refusals' = r(retry)
  BY <1>5, <1>7 DEF RefusedForWhatIsMissing
<1> QED
  BY <1>4, <1>6, <1>7

LEMMA GatesStep ==
    ASSUME NoAliases, PlainSlots, Gates, [RequestNext]_requestVars
    PROVE  Gates'
<1> USE DEF ConsoleUnchanged, ServerUnchanged
<1>1. RequestInv' /\ published' \in DOMAIN Declarations
  BY RequestSteps DEF Gates, RequestInv
<1>2. ASSUME UNCHANGED <<listed, request>>
      PROVE  SentRequest'
  <2>1. Carrier' = Carrier
    BY <1>2 DEF Carrier, Contracts
  <2> QED
    BY <1>2, <2>1 DEF Gates, SentRequest
<1>3. ASSUME request' = None \/ request'.checked # {}
      PROVE  SentRequest'
  BY <1>3 DEF SentRequest
<1>4. ASSUME UNCHANGED refusals
      PROVE  RefusedForWhatIsMissing'
  BY <1>4 DEF Gates, RefusedForWhatIsMissing
<1>5. ASSUME UNCHANGED job
      PROVE  KeptJob'
  BY <1>5 DEF Gates, KeptJob
<1>6. CASE Submit
  <2>1. SentRequest' /\ (request' # None => IsList(request'.inputs))
    BY <1>6, SubmittedRequest DEF Gates
  <2> QED
    BY <1>1, <1>4, <1>5, <1>6, <2>1 DEF Submit, Gates, Lists
<1>7. CASE \E n \in 0 .. MaxStaged : Stage(n)
  <2>1. PICK n \in 0 .. MaxStaged : Stage(n)
    BY <1>7
  <2>2. n \in Nat
    BY <2>1, RequestAssumption
  <2>3. IsList([i \in 1 .. n |-> "reference_image"])
    BY <2>2 DEF IsList
  <2>4. IsList(staged')
    BY <2>1, <2>3, StagedList DEF Stage
  <2> QED
    BY <1>1, <1>2, <1>4, <1>5, <2>1, <2>4 DEF Stage, Gates, Lists
<1>8. CASE Refetch
  <2>1. IsList(staged')
    BY <1>8, StagedList DEF Refetch, Gates, Lists
  <2>2. /\ request = None /\ UNCHANGED <<request, job, refusals>> /\ listed' = published
    BY <1>8 DEF Refetch
  <2> QED
    BY <1>1, <1>3, <1>4, <1>5, <2>1, <2>2 DEF Gates, RequestInv, Lists
<1>9. CASE Reconcile \/ \E d \in DescriptorsOf(Carrier.parameters) : \E v \in Enterable(d) : Pick(d, v)
  <2>1. UNCHANGED <<listed, staged, request, job, refusals>>
    BY <1>9 DEF Reconcile, Pick
  <2> QED
    BY <1>1, <1>2, <1>4, <1>5, <2>1 DEF Gates, Lists
<1>10. CASE Check
  <2>1. RefusedForWhatIsMissing'
    BY <1>10, RefusedByCheck
  <2>2. \/ request' = None
        \/ request' = [request EXCEPT !.checked = {published}]
    BY <1>10 DEF Check
  <2>3. DOMAIN request = {"parameters", "inputs", "checked"}
    BY <1>10 DEF Check, Gates, RequestInv, CheckedRequest
  <2>4. /\ request' = None \/ request'.checked # {}
        /\ request' # None => request'.inputs = request.inputs
    BY <2>2, <2>3
  <2>5. SentRequest'
    BY <1>3, <2>4
  <2> QED
    BY <1>1, <1>5, <1>10, <2>1, <2>4, <2>5 DEF Check, Gates, Lists
<1>11. CASE Create
  <2>1. KeptJob' /\ (job' # None => IsList(job'.inputs))
    BY <1>11, CreatedJob DEF Gates
  <2>2. /\ request' = None /\ refusals' = None /\ UNCHANGED <<listed, staged>>
    BY <1>11 DEF Create
  <2>3. RefusedForWhatIsMissing'
    BY <2>2 DEF RefusedForWhatIsMissing
  <2> QED
    BY <1>1, <1>3, <2>1, <2>2, <2>3 DEF Gates, Lists
<1>12. CASE Retry \/ Dispatch
  <2>1. RefusedForWhatIsMissing'
    BY <1>12, RefusedByRetry
  <2>2. UNCHANGED <<listed, staged, request, job>>
    BY <1>12 DEF Retry, Dispatch
  <2> QED
    BY <1>1, <1>2, <1>5, <2>1, <2>2 DEF Gates, Lists
<1>13. CASE (\E v \in DOMAIN Declarations : Publish(v)) \/ UNCHANGED requestVars
  <2>1. UNCHANGED <<listed, staged, request, job, refusals>>
    BY <1>13 DEF Publish, requestVars
  <2> QED
    BY <1>1, <1>2, <1>4, <1>5, <2>1 DEF Gates, Lists
<1> QED
  BY <1>6, <1>7, <1>8, <1>9, <1>10, <1>11, <1>12, <1>13 DEF RequestNext, Operate

\* What one gate let through the next one refuses for what it was not given only, or for a
\* default nobody looked at, while both read the same revision: whatever the contracts are,
\* provided no parameter goes by the name of another one, and each slot has a role of its own.
THEOREM RefusedOnlyForMissing ==
    ASSUME NoAliases, PlainSlots
    PROVE  RequestSpec => []RefusedForWhatIsMissing
<1>1. Gates => RefusedForWhatIsMissing
  BY DEF Gates
<1>2. Gates /\ [RequestNext]_requestVars => Gates'
  BY GatesStep
<1> QED
  BY <1>1, <1>2, GatesStart, PTL DEF RequestSpec

-----------------------------------------------------------------------------
(* Lists at some of their places                                               *)
Rank(places, i) == Cardinality({j \in places : j <= i})

\* Each number up to their count is the rank of one place, and of no other.
LEMMA RankOnto ==
    ASSUME NEW P, P \subseteq Nat, IsFiniteSet(P)
    PROVE  /\ Cardinality(P) \in Nat
           /\ \A i \in P : Rank(P, i) \in 1 .. Cardinality(P)
           /\ \A i, j \in P : Rank(P, i) = Rank(P, j) => i = j
           /\ \A k \in 1 .. Cardinality(P) : \E i \in P : Rank(P, i) = k
<1>1. Cardinality(P) \in Nat
  BY FS_CardinalityType
<1>2. ASSUME NEW i \in P
      PROVE  Rank(P, i) \in 1 .. Cardinality(P)
  <2> DEFINE below == {j \in P : j <= i}
  <2>1. below \subseteq P /\ i \in below
    OBVIOUS
  <2>2. IsFiniteSet(below) /\ Cardinality(below) <= Cardinality(P)
    BY <2>1, FS_Subset
  <2>3. Cardinality(below) \in Nat /\ Cardinality(below) # 0
    BY <2>1, <2>2, FS_CardinalityType, FS_EmptySet
  <2> QED BY <1>1, <2>2, <2>3 DEF Rank
<1>3. ASSUME NEW i \in P, NEW j \in P, i < j
      PROVE  Rank(P, i) # Rank(P, j)
  <2> DEFINE low == {h \in P : h <= i}
             high == {h \in P : h <= j}
  <2>0. i \in Nat /\ j \in Nat /\ \A h \in P : h \in Nat
    OBVIOUS
  <2>1. low \subseteq high /\ j \in high /\ j \notin low /\ high \subseteq P
    <3>1. \A h \in P : h <= i => h <= j
      BY <1>3, <2>0
    <3>2. j <= j /\ ~ (j <= i)
      BY <1>3, <2>0
    <3> QED BY <3>1, <3>2
  <2>2. IsFiniteSet(high)
    BY <2>1, FS_Subset
  <2>3. Cardinality(low) = Cardinality(high) => high = low
    BY <2>1, <2>2, FS_Subset
  <2> QED BY <2>1, <2>3 DEF Rank
<1>4. \A i, j \in P : Rank(P, i) = Rank(P, j) => i = j
  BY <1>3
<1>5. \A k \in 1 .. Cardinality(P) : \E i \in P : Rank(P, i) = k
  <2> DEFINE ranks == [i \in P |-> Rank(P, i)]
             T == 1 .. Cardinality(P)
  <2>1. ranks \in Injection(P, T)
    BY <1>2, <1>4 DEF Injection, IsInjective
  <2>2. IsFiniteSet(T) /\ Cardinality(T) = Cardinality(P)
    <3>1. IsFiniteSet(T) /\ Cardinality(T) = IF 1 > Cardinality(P) THEN 0 ELSE Cardinality(P) - 1 + 1
      BY <1>1, FS_Interval
    <3> QED BY <1>1, <3>1
  <2>3. ranks \in Surjection(P, T)
    BY <2>1, <2>2, FS_Injection
  <2> QED BY <2>3 DEF Surjection
<1> QED BY <1>1, <1>2, <1>4, <1>5

\* Of some places one is the first.
LEMMA LeastPlace ==
    ASSUME NEW P, P \subseteq Nat, IsFiniteSet(P), P # {}
    PROVE  \E i \in P : \A j \in P : i <= j
<1>1. 1 \in 1 .. Cardinality(P)
  BY FS_CardinalityType, FS_EmptySet
<1>2. PICK i \in P : Rank(P, i) = 1
  BY <1>1, RankOnto
<1>3. ASSUME NEW j \in P, j < i
      PROVE  FALSE
  <2> DEFINE low == {h \in P : h <= j}
             high == {h \in P : h <= i}
  <2>0. i \in Nat /\ j \in Nat /\ \A h \in P : h \in Nat
    OBVIOUS
  <2>1. low \subseteq high /\ high \subseteq P
    <3>1. \A h \in P : h <= j => h <= i
      BY <1>3, <2>0
    <3> QED BY <3>1
  <2>2. IsFiniteSet(high)
    BY <2>1, FS_Subset
  <2>3. Cardinality(low) <= Cardinality(high)
    BY <2>1, <2>2, FS_Subset
  <2>4. Rank(P, j) \in 1 .. Cardinality(P) /\ (Rank(P, j) = Rank(P, i) => i = j) /\ Cardinality(P) \in Nat
    BY RankOnto
  <2>5. Rank(P, j) <= 1
    BY <1>2, <2>3 DEF Rank
  <2> QED BY <1>2, <1>3, <2>4, <2>5
<1> QED BY <1>3

\* The elements at some places: there are as many, each is at a place, and none is lost.
LEMMA PlacesTaken ==
    ASSUME NEW X, NEW s \in Seq(X), NEW P \in SUBSET DOMAIN s
    PROVE  /\ ElementsAt(s, P) \in Seq(X) /\ Len(ElementsAt(s, P)) \in Nat
           /\ DOMAIN ElementsAt(s, P) = 1 .. Len(ElementsAt(s, P))
           /\ \A k \in DOMAIN ElementsAt(s, P) : \E i \in P : ElementsAt(s, P)[k] = s[i] /\ Rank(P, i) = k
           /\ \A i \in P : \E k \in DOMAIN ElementsAt(s, P) : ElementsAt(s, P)[k] = s[i]
<1> DEFINE n == Cardinality(P)
           at(k) == CHOOSE i \in P : Rank(P, i) = k
           t == ElementsAt(s, P)
<1>1. P \subseteq Nat /\ IsFiniteSet(P)
  <2>1. DOMAIN s = 1 .. Len(s) /\ Len(s) \in Nat
    OBVIOUS
  <2>2. IsFiniteSet(1 .. Len(s))
    BY <2>1, FS_Interval
  <2> QED BY <2>1, <2>2, FS_Subset
<1>2. /\ n \in Nat
      /\ \A i \in P : Rank(P, i) \in 1 .. n
      /\ \A i, j \in P : Rank(P, i) = Rank(P, j) => i = j
      /\ \A k \in 1 .. n : \E i \in P : Rank(P, i) = k
  BY <1>1, RankOnto
<1>3. \A k \in 1 .. n : at(k) \in P /\ Rank(P, at(k)) = k
  BY <1>2
<1>4. t = [k \in 1 .. n |-> s[at(k)]]
  BY DEF ElementsAt, InOrder, Rank
<1>5. \A k \in 1 .. n : s[at(k)] \in X
  BY <1>3
<1> HIDE DEF n, at, t
<1>6. t \in Seq(X) /\ Len(t) = n /\ DOMAIN t = 1 .. n /\ \A k \in 1 .. n : t[k] = s[at(k)]
  BY <1>2, <1>4, <1>5
<1>7. \A i \in P : Rank(P, i) \in 1 .. n /\ at(Rank(P, i)) = i
  BY <1>2, <1>3
<1>8. ASSUME NEW i \in P
      PROVE  \E k \in 1 .. n : t[k] = s[i]
  BY <1>6, <1>7
<1>9. \A k \in 1 .. n : \E i \in P : t[k] = s[i] /\ Rank(P, i) = k
  BY <1>3, <1>6
<1> QED BY <1>2, <1>6, <1>8, <1>9 DEF t

\* All of them are the list.
LEMMA AllPlacesTaken ==
    ASSUME NEW X, NEW s \in Seq(X)
    PROVE  ElementsAt(s, DOMAIN s) = s
<1> DEFINE n == Len(s)
           t == ElementsAt(s, 1 .. n)
<1>1. n \in Nat /\ DOMAIN s = 1 .. n
  OBVIOUS
<1>2. ASSUME NEW i \in 1 .. n
      PROVE  Rank(1 .. n, i) = i
  <2>1. {j \in 1 .. n : j <= i} = 1 .. i
    BY <1>1
  <2>2. i \in Int /\ 1 \in Int /\ i >= 1
    BY <1>1
  <2>3. Cardinality(1 .. i) = IF 1 > i THEN 0 ELSE i - 1 + 1
    BY <2>2, FS_Interval
  <2>4. Cardinality(1 .. i) = i
    BY <2>2, <2>3
  <2> QED BY <2>1, <2>4 DEF Rank
<1>3. IsFiniteSet(1 .. n) /\ Cardinality(1 .. n) = n
  <2>1. IsFiniteSet(1 .. n) /\ Cardinality(1 .. n) = IF 1 > n THEN 0 ELSE n - 1 + 1
    BY <1>1, FS_Interval
  <2> QED BY <1>1, <2>1
<1>4. \A k \in 1 .. n : (CHOOSE i \in 1 .. n : Rank(1 .. n, i) = k) = k
  BY <1>2
<1>5. t = [k \in 1 .. n |-> s[CHOOSE i \in 1 .. n : Rank(1 .. n, i) = k]]
  BY <1>3 DEF ElementsAt, InOrder, Rank
<1>6. t = [k \in 1 .. n |-> s[k]]
  BY <1>4, <1>5
<1>7. s = [k \in 1 .. n |-> s[k]]
  BY <1>1
<1> QED BY <1>1, <1>6, <1>7

\* A list without its repeats has the same elements, and without its repeats is itself.
LEMMA RepeatsGone ==
    ASSUME NEW X, NEW s \in Seq(X)
    PROVE  /\ WithoutRepeats(s) \in Seq(X) /\ ToSet(WithoutRepeats(s)) = ToSet(s)
           /\ (WithoutRepeats(s) = <<>>) <=> (s = <<>>)
           /\ WithoutRepeats(WithoutRepeats(s)) = WithoutRepeats(s)
<1> DEFINE Firsts(l) == {i \in DOMAIN l : \A j \in 1 .. i - 1 : l[j] # l[i]}
           P == Firsts(s)
           t == ElementsAt(s, P)
<1>0. WithoutRepeats(s) = t
  BY DEF WithoutRepeats
<1>1. P \in SUBSET DOMAIN s /\ Len(s) \in Nat /\ DOMAIN s = 1 .. Len(s)
  OBVIOUS
<1> HIDE DEF P
<1>2. /\ t \in Seq(X) /\ Len(t) \in Nat /\ DOMAIN t = 1 .. Len(t)
      /\ \A k \in DOMAIN t : \E i \in P : t[k] = s[i] /\ Rank(P, i) = k
      /\ \A i \in P : \E k \in DOMAIN t : t[k] = s[i]
  BY <1>1, PlacesTaken
<1>3. \A i \in DOMAIN s : \E j \in P : s[j] = s[i]
  <2>1. SUFFICES ASSUME NEW i \in DOMAIN s, \A j \in P : s[j] # s[i]
                 PROVE  FALSE
    OBVIOUS
  <2> DEFINE same == {j \in DOMAIN s : s[j] = s[i]}
  <2>2. same \in SUBSET (1 .. Len(s)) /\ same # {}
    BY <1>1
  <2>3. \E j \in same : \A k \in same : j <= k
    <3>1. IsFiniteSet(1 .. Len(s)) /\ same \in SUBSET Nat
      BY <1>1, <2>2, FS_Interval
    <3>2. IsFiniteSet(same)
      BY <2>2, <3>1, FS_Subset
    <3> QED BY <2>2, <3>1, <3>2, LeastPlace
  <2>4. PICK j \in same : \A k \in same : j <= k
    BY <2>3
  <2>5. j \in DOMAIN s /\ s[j] = s[i] /\ \A k \in 1 .. j - 1 : s[k] # s[j]
    BY <1>1, <2>4
  <2> QED BY <2>1, <2>5 DEF P
<1> HIDE DEF t
<1>4. ToSet(t) = ToSet(s)
  <2>1. ASSUME NEW k \in DOMAIN t
        PROVE  t[k] \in ToSet(s)
    BY <1>1, <1>2 DEF ToSet
  <2>2. ASSUME NEW i \in DOMAIN s
        PROVE  s[i] \in ToSet(t)
    BY <1>2, <1>3 DEF ToSet
  <2> QED BY <2>1, <2>2 DEF ToSet
<1>5. \A k, l \in DOMAIN t : t[k] = t[l] => k = l
  <2>1. SUFFICES ASSUME NEW k \in DOMAIN t, NEW l \in DOMAIN t, t[k] = t[l]
                 PROVE  k = l
    OBVIOUS
  <2>2. PICK i \in P : t[k] = s[i] /\ Rank(P, i) = k
    BY <1>2
  <2>3. PICK j \in P : t[l] = s[j] /\ Rank(P, j) = l
    BY <1>2
  <2>4. i \in 1 .. Len(s) /\ j \in 1 .. Len(s) /\ s[i] = s[j]
    BY <1>1, <2>1, <2>2, <2>3
  <2>5. i \notin 1 .. j - 1 /\ j \notin 1 .. i - 1
    BY <2>4 DEF P
  <2>6. i = j
    BY <1>1, <2>4, <2>5
  <2> QED BY <2>2, <2>3, <2>6
<1>6. Firsts(t) = DOMAIN t
  <2>1. ASSUME NEW k \in DOMAIN t, NEW l \in 1 .. k - 1
        PROVE  t[l] # t[k]
    <3>1. l \in DOMAIN t /\ l # k
      BY <1>2
    <3> QED BY <1>5, <3>1
  <2> QED BY <2>1
<1>7. ElementsAt(t, DOMAIN t) = t
  BY <1>2, AllPlacesTaken
<1>8. WithoutRepeats(t) = t
  BY <1>6, <1>7 DEF WithoutRepeats
<1>9. (t = <<>>) <=> (s = <<>>)
  <2>1. CASE s = <<>>
    <3>1. DOMAIN s = {}
      BY <2>1
    <3>2. Len(t) = 0
      BY <1>1, <1>2, <3>1
    <3> QED BY <1>2, <2>1, <3>2
  <2>2. CASE s # <<>>
    <3>1. 1 \in DOMAIN s
      BY <1>1, <2>2
    <3>2. \E k \in DOMAIN t : TRUE
      BY <1>2, <1>3, <3>1
    <3> QED BY <1>2, <2>2, <3>2
  <2> QED BY <2>1, <2>2
<1> QED BY <1>0, <1>2, <1>4, <1>8, <1>9


\* Of a list of modalities those of media remain, all of them if there is nothing else.
LEMMA MediaTaken ==
    ASSUME NEW s \in Seq(STRING)
    PROVE  /\ MediaOnly(s) \in Seq(STRING) /\ MediaOnly(MediaOnly(s)) = MediaOnly(s)
           /\ ToSet(s) \subseteq MediaModalities => MediaOnly(s) = s
<1> DEFINE P(l) == {i \in DOMAIN l : l[i] \in MediaModalities}
           t == MediaOnly(s)
<1>1. ASSUME NEW l \in Seq(STRING), \A i \in DOMAIN l : l[i] \in MediaModalities
      PROVE  MediaOnly(l) = l
  <2>1. P(l) = DOMAIN l
    BY <1>1
  <2>2. ElementsAt(l, DOMAIN l) = l
    BY AllPlacesTaken
  <2> QED BY <2>1, <2>2 DEF MediaOnly
<1>2. t \in Seq(STRING) /\ \A k \in DOMAIN t : t[k] \in MediaModalities
  <2> DEFINE Q == P(s)
  <2>1. Q \in SUBSET DOMAIN s /\ \A i \in Q : s[i] \in MediaModalities
    OBVIOUS
  <2>2. t = ElementsAt(s, Q)
    BY DEF MediaOnly
  <2> HIDE DEF Q, t
  <2>3. ElementsAt(s, Q) \in Seq(STRING) /\ \A k \in DOMAIN ElementsAt(s, Q) : \E i \in Q : ElementsAt(s, Q)[k] = s[i]
    BY <2>1, PlacesTaken
  <2> QED BY <2>1, <2>2, <2>3
<1> HIDE DEF t
<1>3. MediaOnly(t) = t
  BY <1>1, <1>2
<1>4. ToSet(s) \subseteq MediaModalities => \A i \in DOMAIN s : s[i] \in MediaModalities
  BY DEF ToSet
<1> QED BY <1>1, <1>2, <1>3, <1>4 DEF t

-----------------------------------------------------------------------------
(* The manifest of an accepted upload                                          *)
\* What includes() finds in a list is among its elements.
LEMMA Listed ==
    ASSUME NEW X, NEW s \in Seq(X), NEW e
    PROVE  Contains(s, e) <=> e \in ToSet(s)
<1>1. DOMAIN s = 1 .. Len(s)
  OBVIOUS
<1>2. Contains(s, e) <=> \E i \in DOMAIN s : s[i] = e
  BY <1>1 DEF Contains
<1>3. e \in ToSet(s) <=> \E i \in DOMAIN s : s[i] = e
  BY DEF ToSet
<1> QED BY <1>2, <1>3

Unpadded(hosts) == [i \in DOMAIN hosts |-> [hosts[i] EXCEPT !.padded = FALSE]]

\* The hosts without their padding and repeats are the same patterns, and stay as they are.
LEMMA HostsKept ==
    ASSUME NEW hosts \in Seq(HostPattern)
    PROVE  LET kept == WithoutRepeats(Unpadded(hosts)) IN
           /\ (kept = <<>>) <=> (hosts = <<>>)
           /\ WithoutRepeats(Unpadded(kept)) = kept
           /\ \A h \in ToSet(kept) : \E g \in ToSet(hosts) : h.form = g.form
           /\ \A name : HostMatchesAllowlist(name, hosts) => HostMatchesAllowlist(name, kept)
<1> DEFINE flat == Unpadded(hosts)
           kept == WithoutRepeats(flat)
           Flat == {h \in HostPattern : h.padded = FALSE}
<1>1. DOMAIN hosts = 1 .. Len(hosts) /\ Len(hosts) \in Nat /\ \A i \in DOMAIN hosts : hosts[i] \in HostPattern
  OBVIOUS
<1>2. \A i \in DOMAIN hosts : [hosts[i] EXCEPT !.padded = FALSE] \in Flat
  BY <1>1 DEF HostPattern
<1>3. /\ flat = [i \in 1 .. Len(hosts) |-> [hosts[i] EXCEPT !.padded = FALSE]]
      /\ flat \in Seq(Flat) /\ DOMAIN flat = DOMAIN hosts
  BY <1>1, <1>2 DEF Unpadded
<1>4. \A i \in DOMAIN hosts : /\ flat[i].form = hosts[i].form /\ flat[i].wild = hosts[i].wild
                              /\ flat[i].name = hosts[i].name
  BY <1>1, <1>3 DEF HostPattern
<1> HIDE DEF flat, Flat
<1>5. /\ kept \in Seq(Flat) /\ ToSet(kept) = ToSet(flat) /\ ((kept = <<>>) <=> (flat = <<>>))
      /\ WithoutRepeats(kept) = kept
  BY <1>3, RepeatsGone
<1> HIDE DEF kept
<1>6. (flat = <<>>) <=> (hosts = <<>>)
  BY <1>1, <1>3
<1>7. Unpadded(kept) = kept
  <2>1. \A k \in DOMAIN kept : kept[k] \in HostPattern /\ kept[k].padded = FALSE
    BY <1>5 DEF Flat
  <2>2. \A k \in DOMAIN kept : [kept[k] EXCEPT !.padded = FALSE] = kept[k]
    BY <2>1 DEF HostPattern
  <2>3. Unpadded(kept) = [k \in DOMAIN kept |-> kept[k]]
    BY <2>2 DEF Unpadded
  <2>4. kept = [k \in DOMAIN kept |-> kept[k]]
    BY <1>5
  <2> QED BY <2>3, <2>4
<1>8. ASSUME NEW h \in ToSet(kept)
      PROVE  \E g \in ToSet(hosts) : h.form = g.form
  <2>1. PICK i \in DOMAIN flat : h = flat[i]
    BY <1>5, <1>8 DEF ToSet
  <2> QED BY <1>3, <1>4, <2>1 DEF ToSet
<1>9. ASSUME NEW name, HostMatchesAllowlist(name, hosts)
      PROVE  HostMatchesAllowlist(name, kept)
  <2>1. PICK i \in DOMAIN hosts : IF hosts[i].wild THEN IsStrictSuffix(hosts[i].name, name)
                                  ELSE hosts[i].name = name
    BY <1>9 DEF HostMatchesAllowlist
  <2>2. flat[i] \in ToSet(kept)
    BY <1>3, <1>5 DEF ToSet
  <2>3. PICK k \in DOMAIN kept : kept[k] = flat[i]
    BY <2>2 DEF ToSet
  <2>4. kept[k].wild = hosts[i].wild /\ kept[k].name = hosts[i].name
    BY <1>4, <2>3
  <2> QED BY <2>1, <2>4 DEF HostMatchesAllowlist
<1> QED BY <1>5, <1>6, <1>7, <1>8, <1>9 DEF kept, flat

\* A credential that is declared well still is when it is normalized, against the normalized lists.
LEMMA CredentialKept ==
    ASSUME NEW spec \in DeclaredCredential, NEW schemas \in Seq(STRING), NEW hosts \in Seq(HostPattern),
           CredentialFaults(spec, schemas, hosts) = {}
    PROVE  /\ CredentialFaults(NormalizedCredential(spec), WithoutRepeats(schemas),
                               WithoutRepeats(Unpadded(hosts))) = {}
           /\ NormalizedCredential(NormalizedCredential(spec)) = NormalizedCredential(spec)
<1> DEFINE kept == WithoutRepeats(Unpadded(hosts))
           few == WithoutRepeats(schemas)
           n == NormalizedCredential(spec)
<1>1. /\ n \in DeclaredCredential /\ n.padded = FALSE
      /\ n.placeholder = spec.placeholder \ {""} /\ n.help = spec.help \ {""}
      /\ n.providerId = spec.providerId /\ n.schemaId = spec.schemaId /\ n.format = spec.format
      /\ n.label = spec.label /\ n.policy = spec.policy /\ n.default = spec.default
  BY DEF NormalizedCredential, DeclaredCredential
<1>2. NormalizedCredential(n) = n
  <2>1. n.placeholder \ {""} = n.placeholder /\ n.help \ {""} = n.help
    BY <1>1
  <2> HIDE DEF n
  <2> QED BY <1>1, <2>1 DEF NormalizedCredential, DeclaredCredential
<1> HIDE DEF n
<1>3. /\ spec.providerId \in PluginIds /\ Contains(schemas, spec.schemaId) /\ spec.format \in {"text", "json"}
      /\ spec.label \notin {"", "too long"} /\ ~ TextFault(spec.placeholder) /\ ~ TextFault(spec.help)
      /\ spec.policy \in {"fixed", "allowlisted"} /\ (spec.policy = "fixed" => spec.default # {})
      /\ \A url \in spec.default : url.scheme = "https" /\ HostMatchesAllowlist(url.host, hosts)
  BY DEF CredentialFaults, When
<1>4. Contains(few, n.schemaId)
  <2>1. few \in Seq(STRING) /\ ToSet(few) = ToSet(schemas)
    BY RepeatsGone
  <2>2. spec.schemaId \in ToSet(schemas)
    BY <1>3, Listed
  <2> HIDE DEF few
  <2> QED BY <1>1, <2>1, <2>2, Listed
<1>5. \A url \in n.default : url.scheme = "https" /\ HostMatchesAllowlist(url.host, kept)
  BY <1>1, <1>3, HostsKept
<1>6. ~ TextFault(n.placeholder) /\ ~ TextFault(n.help)
  BY <1>1, <1>3 DEF TextFault
<1> HIDE DEF kept, few
<1>7. CredentialFaults(n, few, kept) = {}
  BY <1>1, <1>3, <1>4, <1>5, <1>6 DEF CredentialFaults, When
<1> QED BY <1>2, <1>7 DEF n, few, kept

\* A contract that is checked without its nested defaults has no fault it had not with them.
LEMMA ContractKept ==
    ASSUME NEW c, DOMAIN c = DOMAIN Undeclared, NEW d, NEW S,
           DeclarationFindings([c EXCEPT !.defaults = d]) = {}, S \subseteq DOMAIN d
    PROVE  DeclarationFindings([c EXCEPT !.defaults = Restrict(d, S)]) = {}
<1> DEFINE a == [c EXCEPT !.defaults = d]
           b == [c EXCEPT !.defaults = Restrict(d, S)]
<1>1. {"modes", "parameters", "inputSlots", "flags", "crossFieldConstraints", "defaults"} \subseteq DOMAIN c
  BY DEF Undeclared
<1>2. /\ b.modes = a.modes /\ b.parameters = a.parameters /\ b.inputSlots = a.inputSlots
      /\ b.flags = a.flags /\ b.crossFieldConstraints = a.crossFieldConstraints
      /\ a.defaults = d /\ b.defaults = Restrict(d, S)
  BY <1>1
<1> HIDE DEF a, b
<1>3. DefaultFindings(d, a.parameters) = {}
  BY <1>2 DEF DeclarationFindings, a
<1>4. DefaultFindings(Restrict(d, S), a.parameters) = {}
  <2>1. DOMAIN Restrict(d, S) = S /\ \A n \in S : Restrict(d, S)[n] = d[n]
    BY DEF Restrict
  <2>2. \A n \in DOMAIN d : n \in NamesOf(a.parameters) /\ Legal(Descriptor(a.parameters, n), d[n])
    BY <1>3 DEF DefaultFindings
  <2> QED BY <2>1, <2>2 DEF DefaultFindings
<1>5. DeclarationFindings(b) \subseteq DeclarationFindings(a) \cup DefaultFindings(b.defaults, b.parameters)
  BY <1>2 DEF DeclarationFindings
<1> QED BY <1>2, <1>4, <1>5 DEF a, b

Unnested(defaults) == {n \in DOMAIN defaults : defaults[n].kind # "nested"}

\* A model of a valid manifest is valid when it is normalized, and stays as it is.
LEMMA ModelKept ==
    ASSUME NEW m, NEW model, m.kind \in {"media", "language"},
           m.modalities \in Seq(STRING), model.modalities \in Seq(STRING),
           m.kind = "media" => m.modalities # <<>> /\ ToSet(m.modalities) \subseteq MediaModalities,
           \A c \in model.capabilities : DOMAIN c = DOMAIN Undeclared,
           ModelFaults(m.kind, model) = {}
    PROVE  /\ ModelFaults(m.kind, NormalizedModel(m, model)) = {}
           /\ \A k : k.kind = m.kind =>
                NormalizedModel(k, NormalizedModel(m, model)) = NormalizedModel(m, model)
<1> DEFINE n == NormalizedModel(m, model)
           own == MediaOnly(model.modalities)
<1>1. /\ n.id = model.id /\ n.limit = model.limit \ {Null}
      /\ n.modalities = (IF m.kind = "language" THEN <<>> ELSE IF own = <<>> THEN m.modalities ELSE own)
      /\ n.capabilities = (IF m.kind = "media" THEN model.capabilities ELSE {})
      /\ n.defaults = (IF m.kind = "media" THEN Restrict(model.defaults, Unnested(model.defaults)) ELSE <<>>)
      /\ n = [id |-> n.id, modalities |-> n.modalities, limit |-> n.limit,
              capabilities |-> n.capabilities, defaults |-> n.defaults]
  BY DEF NormalizedModel, Unnested
<1> HIDE DEF n
<1>2. model.id # ""
  BY DEF ModelFaults, When
<1>3. ModelFaults(m.kind, n) = {}
  <2>1. ASSUME m.kind = "media", NEW c \in n.capabilities
        PROVE  DeclarationFindings(ProbedContract(n, c)) = {}
    <3>1. c \in model.capabilities /\ n.defaults = Restrict(model.defaults, Unnested(model.defaults))
      BY <1>1, <2>1
    <3>2. DeclarationFindings(ProbedContract(model, c)) = {}
      BY <1>2, <2>1, <3>1 DEF ModelFaults
    <3>3. Unnested(model.defaults) \subseteq DOMAIN model.defaults /\ DOMAIN c = DOMAIN Undeclared
      BY <3>1 DEF Unnested
    <3> QED BY <3>1, <3>2, <3>3, ContractKept DEF ProbedContract
  <2> QED BY <1>1, <1>2, <2>1 DEF ModelFaults, When
<1> DEFINE again == MediaOnly(n.modalities)
<1>4. IF m.kind = "language" THEN n.modalities = <<>>
      ELSE again = n.modalities /\ again # <<>>
  <2>1. own \in Seq(STRING) /\ MediaOnly(own) = own
    BY MediaTaken
  <2>2. m.kind = "media" => MediaOnly(m.modalities) = m.modalities
    BY MediaTaken
  <2> HIDE DEF own
  <2> QED BY <1>1, <2>1, <2>2
<1>5. m.kind = "media" => Restrict(n.defaults, Unnested(n.defaults)) = n.defaults
  <2> DEFINE S == Unnested(model.defaults)
             r == Restrict(model.defaults, S)
  <2>1. r = [x \in S |-> model.defaults[x]] /\ \A x \in S : model.defaults[x].kind # "nested"
    BY DEF Restrict, Unnested
  <2> HIDE DEF S, r
  <2>2. DOMAIN r = S /\ \A x \in S : r[x].kind # "nested"
    BY <2>1
  <2>3. Unnested(r) = S
    BY <2>2 DEF Unnested
  <2>4. Restrict(r, S) = r
    BY <2>1, <2>2 DEF Restrict
  <2> QED BY <1>1, <2>3, <2>4 DEF r, S
<1>6. n.limit \ {Null} = n.limit
  BY <1>1
<1>7. ASSUME NEW k, k.kind = m.kind
      PROVE  NormalizedModel(k, n) = n
  <2>1. CASE m.kind = "language"
    <3>1. n.modalities = <<>> /\ n.capabilities = {} /\ n.defaults = <<>>
      BY <1>1, <2>1
    <3> QED BY <1>1, <1>6, <1>7, <2>1, <3>1 DEF NormalizedModel
  <2>2. CASE m.kind = "media"
    <3> HIDE DEF again
    <3>1. NormalizedModel(k, n) = [id |-> n.id, modalities |-> again, limit |-> n.limit \ {Null},
               capabilities |-> n.capabilities, defaults |-> Restrict(n.defaults, Unnested(n.defaults))]
      BY <1>4, <1>7, <2>2 DEF NormalizedModel, Unnested, again
    <3> QED BY <1>1, <1>4, <1>5, <1>6, <2>2, <3>1
  <2> QED BY <2>1, <2>2
<1> QED BY <1>3, <1>7 DEF n

\* What a manifest without faults declares.
Declared(m) ==
    /\ m.id \in PluginIds /\ m.version \in PluginVersions /\ m.kind \in {"media", "language"}
    /\ m.displayName # "" /\ m.allowedHosts # <<>> /\ m.credentialSchemas # <<>> /\ m.models # <<>>
    /\ \A h \in ToSet(m.allowedHosts) : HostFaults(h) = {}
    /\ ToSet(m.credentialSchemas) \subseteq CredentialSchemas
    /\ \A spec \in m.credential : CredentialFaults(spec, m.credentialSchemas, m.allowedHosts) = {}
    /\ \A model \in ToSet(m.models) : ModelFaults(m.kind, model) = {}
    /\ m.kind = "media" => m.modalities # <<>> /\ ToSet(m.modalities) \subseteq MediaModalities
    /\ m.kind = "language" => /\ m.languageProtocols # <<>>
                              /\ ToSet(m.languageProtocols) \subseteq LanguageProtocols

\* A manifest is without faults if each part of it is.
LEMMA FaultlessDeclares ==
    ASSUME NEW m
    PROVE  ManifestFaults(m) = {} <=> Declared(m)
<1> DEFINE hosts == HostListFaults(m)
           credentials == CredentialListFaults(m)
           models == ModelListFaults(m)
<1>1. hosts = {} <=> \A h \in ToSet(m.allowedHosts) : HostFaults(h) = {}
  BY DEF HostListFaults
<1>2. credentials = {} <=> \A spec \in m.credential : CredentialFaults(spec, m.credentialSchemas, m.allowedHosts) = {}
  BY DEF CredentialListFaults
<1>3. models = {} <=> \A model \in ToSet(m.models) : ModelFaults(m.kind, model) = {}
  BY DEF ModelListFaults
<1> DEFINE plain == When(m.id \notin PluginIds, "INVALID_PLUGIN_ID")
                \cup When(m.version \notin PluginVersions, "INVALID_PLUGIN_VERSION")
                \cup When(m.kind \notin {"media", "language"}, "INVALID_PLUGIN_KIND")
                \cup When(m.displayName = "", "INVALID_DISPLAY_NAME")
                \cup When(m.allowedHosts = <<>>, "EMPTY_ALLOWED_HOSTS")
           schemas == When(m.credentialSchemas = <<>> \/ ~(ToSet(m.credentialSchemas) \subseteq CredentialSchemas),
                           "UNSUPPORTED_CREDENTIAL_SCHEMA")
           none == When(m.models = <<>>, "EMPTY_MODEL_LIST")
           media == When(m.kind = "media" /\ (m.modalities = <<>> \/ ~(ToSet(m.modalities) \subseteq MediaModalities)),
                         "INVALID_MODALITIES")
           language == When(/\ m.kind = "language"
                            /\ m.languageProtocols = <<>> \/ ~(ToSet(m.languageProtocols) \subseteq LanguageProtocols),
                            "INVALID_LANGUAGE_PROTOCOLS")
<1>4. ManifestFaults(m) =
        plain \cup hosts \cup schemas \cup credentials \cup none \cup models \cup media \cup language
  BY DEF ManifestFaults, When
<1>5. plain = {} <=> /\ m.id \in PluginIds /\ m.version \in PluginVersions /\ m.kind \in {"media", "language"}
                     /\ m.displayName # "" /\ m.allowedHosts # <<>>
  BY DEF When
<1>6. /\ schemas = {} <=> m.credentialSchemas # <<>> /\ ToSet(m.credentialSchemas) \subseteq CredentialSchemas
      /\ none = {} <=> m.models # <<>>
  BY DEF When
<1>7. /\ media = {} <=> (m.kind = "media" => m.modalities # <<>> /\ ToSet(m.modalities) \subseteq MediaModalities)
      /\ language = {} <=> (m.kind = "language" => /\ m.languageProtocols # <<>>
                                                   /\ ToSet(m.languageProtocols) \subseteq LanguageProtocols)
  BY DEF When
<1> HIDE DEF plain, hosts, schemas, credentials, none, models, media, language
<1>8. ManifestFaults(m) = {} <=> /\ plain = {} /\ hosts = {} /\ schemas = {} /\ credentials = {}
                                 /\ none = {} /\ models = {} /\ media = {} /\ language = {}
  BY <1>4
<1> QED BY <1>1, <1>2, <1>3, <1>5, <1>6, <1>7, <1>8 DEF Declared

\* A valid manifest is valid when it is normalized, and normalized again it stays as it is.
LEMMA ManifestKept ==
    ASSUME NEW m, ManifestShape(m), ManifestFaults(m) = {}
    PROVE  /\ ManifestFaults(NormalizedManifest(m)) = {}
           /\ NormalizedManifest(NormalizedManifest(m)) = NormalizedManifest(m)
<1> DEFINE n == NormalizedManifest(m)
<1>1. Declared(m)
  BY FaultlessDeclares
<1>2. /\ n.id = m.id /\ n.version = m.version /\ n.kind = m.kind /\ n.displayName = m.displayName
      /\ n.padded = FALSE /\ n.description = m.description
      /\ n.allowedHosts = WithoutRepeats(Unpadded(m.allowedHosts))
      /\ n.credentialSchemas = WithoutRepeats(m.credentialSchemas)
      /\ n.credential = {NormalizedCredential(spec) : spec \in m.credential}
      /\ n.modalities = (IF m.kind = "media" THEN WithoutRepeats(m.modalities) ELSE <<>>)
      /\ n.languageProtocols = (IF m.kind = "language" THEN WithoutRepeats(m.languageProtocols) ELSE <<>>)
      /\ n.models = [i \in DOMAIN m.models |-> NormalizedModel(m, m.models[i])]
  BY DEF NormalizedManifest, Unpadded
<1>3. n = [id |-> n.id, version |-> n.version, kind |-> n.kind, displayName |-> n.displayName,
           padded |-> n.padded, description |-> n.description, allowedHosts |-> n.allowedHosts,
           credentialSchemas |-> n.credentialSchemas, credential |-> n.credential,
           modalities |-> n.modalities, languageProtocols |-> n.languageProtocols, models |-> n.models]
  BY DEF NormalizedManifest
<1> HIDE DEF n
<1>4. /\ m.allowedHosts \in Seq(HostPattern) /\ m.credential \subseteq DeclaredCredential
      /\ m.credentialSchemas \in Seq(STRING) /\ m.modalities \in Seq(STRING) /\ m.languageProtocols \in Seq(STRING)
      /\ m.models \in Seq({m.models[i] : i \in DOMAIN m.models}) /\ m.models = [i \in DOMAIN m.models |-> m.models[i]]
      /\ \A i \in DOMAIN m.models : /\ m.models[i].modalities \in Seq(STRING)
                                    /\ \A c \in m.models[i].capabilities : DOMAIN c = DOMAIN Undeclared
  BY DEF ManifestShape
<1>5. /\ (n.allowedHosts = <<>>) <=> (m.allowedHosts = <<>>)
      /\ WithoutRepeats(Unpadded(n.allowedHosts)) = n.allowedHosts
      /\ \A h \in ToSet(n.allowedHosts) : \E g \in ToSet(m.allowedHosts) : h.form = g.form
  BY <1>2, <1>4, HostsKept
<1>6. /\ n.credentialSchemas # <<>> /\ ToSet(n.credentialSchemas) = ToSet(m.credentialSchemas)
      /\ WithoutRepeats(n.credentialSchemas) = n.credentialSchemas
  BY <1>1, <1>2, <1>4, RepeatsGone DEF Declared
<1>7. \A spec \in n.credential :
         /\ CredentialFaults(spec, n.credentialSchemas, n.allowedHosts) = {}
         /\ NormalizedCredential(spec) = spec
  <2>1. SUFFICES ASSUME NEW given \in m.credential
                 PROVE  LET spec == NormalizedCredential(given)
                        IN /\ CredentialFaults(spec, n.credentialSchemas, n.allowedHosts) = {}
                           /\ NormalizedCredential(spec) = spec
    BY <1>2
  <2>2. given \in DeclaredCredential /\ CredentialFaults(given, m.credentialSchemas, m.allowedHosts) = {}
    BY <1>1, <1>4 DEF Declared
  <2> QED BY <1>2, <1>4, <2>2, CredentialKept
<1>8. m.kind = "media" => /\ n.modalities # <<>> /\ ToSet(n.modalities) \subseteq MediaModalities
                          /\ WithoutRepeats(n.modalities) = n.modalities
  BY <1>1, <1>2, <1>4, RepeatsGone DEF Declared
<1>9. m.kind = "language" => /\ n.languageProtocols # <<>> /\ ToSet(n.languageProtocols) \subseteq LanguageProtocols
                             /\ WithoutRepeats(n.languageProtocols) = n.languageProtocols
  BY <1>1, <1>2, <1>4, RepeatsGone DEF Declared
<1>10. \A i \in DOMAIN m.models : /\ ModelFaults(m.kind, n.models[i]) = {}
                                  /\ NormalizedModel(n, n.models[i]) = n.models[i]
  <2>1. SUFFICES ASSUME NEW i \in DOMAIN m.models
                 PROVE  /\ ModelFaults(m.kind, n.models[i]) = {}
                        /\ NormalizedModel(n, n.models[i]) = n.models[i]
    OBVIOUS
  <2>2. n.models[i] = NormalizedModel(m, m.models[i]) /\ m.models[i] \in ToSet(m.models)
    BY <1>2 DEF ToSet
  <2>3. ModelFaults(m.kind, m.models[i]) = {} /\ m.kind \in {"media", "language"}
    BY <1>1, <2>2 DEF Declared
  <2>4. /\ n.kind = m.kind /\ m.modalities \in Seq(STRING) /\ m.models[i].modalities \in Seq(STRING)
        /\ m.kind = "media" => m.modalities # <<>> /\ ToSet(m.modalities) \subseteq MediaModalities
        /\ \A c \in m.models[i].capabilities : DOMAIN c = DOMAIN Undeclared
    BY <1>1, <1>2, <1>4 DEF Declared
  <2> DEFINE model == m.models[i]
  <2>6. /\ model.modalities \in Seq(STRING) /\ \A c \in model.capabilities : DOMAIN c = DOMAIN Undeclared
        /\ ModelFaults(m.kind, model) = {}
    BY <2>3, <2>4
  <2> HIDE DEF model
  <2>5. /\ ModelFaults(m.kind, NormalizedModel(m, model)) = {}
        /\ NormalizedModel(n, NormalizedModel(m, model)) = NormalizedModel(m, model)
    BY <2>3, <2>4, <2>6, ModelKept
  <2> QED BY <2>2, <2>5 DEF model
<1>11. DOMAIN n.models = DOMAIN m.models /\ n.models = [i \in DOMAIN n.models |-> n.models[i]] /\ n.models # <<>>
  <2>1. DOMAIN n.models = DOMAIN m.models /\ n.models = [i \in DOMAIN n.models |-> n.models[i]]
    BY <1>2
  <2>2. m.models # <<>>
    BY <1>1 DEF Declared
  <2>3. DOMAIN m.models # {}
    <3> DEFINE models == m.models
               X == {m.models[i] : i \in DOMAIN m.models}
    <3>1. models \in Seq(X) /\ models # <<>>
      BY <1>4, <2>2
    <3> HIDE DEF models, X
    <3>2. Len(models) # 0 /\ Len(models) \in Nat /\ DOMAIN models = 1 .. Len(models)
      BY <3>1, EmptySeq
    <3>3. 1 \in DOMAIN models
      BY <3>2
    <3> QED BY <3>3 DEF models
  <2>4. DOMAIN (<<>>) = {}
    OBVIOUS
  <2> QED BY <2>1, <2>3, <2>4
<1>12. Declared(n)
  <2>1. \A h \in ToSet(n.allowedHosts) : HostFaults(h) = {}
    <3>1. SUFFICES ASSUME NEW h \in ToSet(n.allowedHosts)
                   PROVE  HostFaults(h) = {}
      OBVIOUS
    <3>2. PICK g \in ToSet(m.allowedHosts) : h.form = g.form
      BY <1>5
    <3>3. HostFaults(g) = {}
      BY <1>1 DEF Declared
    <3>4. HostFaults(h) = HostFaults(g)
      BY <3>2 DEF HostFaults
    <3> QED BY <3>3, <3>4
  <2>2. \A model \in ToSet(n.models) : ModelFaults(n.kind, model) = {}
    BY <1>2, <1>10, <1>11 DEF ToSet
  <2>3. /\ n.id \in PluginIds /\ n.version \in PluginVersions /\ n.kind \in {"media", "language"}
        /\ n.displayName # "" /\ n.allowedHosts # <<>>
        /\ ToSet(n.credentialSchemas) \subseteq CredentialSchemas
    BY <1>1, <1>2, <1>5, <1>6 DEF Declared
  <2> QED BY <1>2, <1>6, <1>7, <1>8, <1>9, <1>11, <2>1, <2>2, <2>3 DEF Declared
<1>13. NormalizedManifest(n) = n
  <2>1. {NormalizedCredential(spec) : spec \in n.credential} = n.credential
    BY <1>7
  <2>2. [i \in DOMAIN n.models |-> NormalizedModel(n, n.models[i])] = n.models
    BY <1>10, <1>11
  <2>3. /\ (IF n.kind = "media" THEN WithoutRepeats(n.modalities) ELSE <<>>) = n.modalities
        /\ (IF n.kind = "language" THEN WithoutRepeats(n.languageProtocols) ELSE <<>>) = n.languageProtocols
    BY <1>2, <1>8, <1>9
  <2>4. NormalizedManifest(n) =
          [id |-> n.id, version |-> n.version, kind |-> n.kind, displayName |-> n.displayName,
           padded |-> FALSE, description |-> n.description,
           allowedHosts |-> WithoutRepeats(Unpadded(n.allowedHosts)),
           credentialSchemas |-> WithoutRepeats(n.credentialSchemas),
           credential |-> {NormalizedCredential(spec) : spec \in n.credential},
           modalities |-> IF n.kind = "media" THEN WithoutRepeats(n.modalities) ELSE <<>>,
           languageProtocols |-> IF n.kind = "language" THEN WithoutRepeats(n.languageProtocols) ELSE <<>>,
           models |-> [i \in DOMAIN n.models |-> NormalizedModel(n, n.models[i])]]
    BY DEF NormalizedManifest, Unpadded
  <2> QED BY <1>2, <1>3, <1>5, <1>6, <2>1, <2>2, <2>3, <2>4
<1> QED BY <1>12, <1>13, FaultlessDeclares DEF n

\* JSON keeps what is normalized, if the manifest has no number beyond its range.
LEMMA JsonKeeps ==
    ASSUME NEW m, Finite(m)
    PROVE  ThroughJson(NormalizedManifest(m)) = NormalizedManifest(m)
<1> DEFINE n == NormalizedManifest(m)
<1>1. n.models = [i \in DOMAIN m.models |-> NormalizedModel(m, m.models[i])]
  BY DEF NormalizedManifest
<1>2. n = [n EXCEPT !.models = n.models]
  BY DEF NormalizedManifest
<1> HIDE DEF n
<1>3. ASSUME NEW i \in DOMAIN n.models
      PROVE  JsonModel(n.models[i]) = n.models[i]
  <2> DEFINE k == NormalizedModel(m, m.models[i])
  <2>1. i \in DOMAIN m.models /\ n.models[i] = k
    BY <1>1
  <2>2. k.limit = m.models[i].limit \ {Null} /\ k = [k EXCEPT !.limit = k.limit]
    BY DEF NormalizedModel
  <2> HIDE DEF k
  <2>3. Infinite \notin k.limit
    BY <2>1, <2>2 DEF Finite
  <2>4. {IF x = Infinite THEN Null ELSE x : x \in k.limit} = k.limit
    BY <2>3
  <2> QED BY <2>1, <2>2, <2>4 DEF JsonModel
<1>4. [i \in DOMAIN n.models |-> JsonModel(n.models[i])] = n.models
  BY <1>1, <1>3
<1> QED BY <1>2, <1>4 DEF n, ThroughJson

-----------------------------------------------------------------------------
(* The row of an accepted upload, and the worker that loads it                 *)

EntryOf(p) == (CHOOSE b \in p.block : TRUE).entry

\* The row that installPlugin stores.
StoredRow(p) ==
    LET m     == NormalizedManifest(p.manifest)
        entry == IF p.format = "mjs" THEN p.bytes ELSE FileAt(p, EntryOf(p)).usize
    IN [id |-> m.id, version |-> m.version, kind |-> m.kind, format |-> p.format,
        bytes |-> entry, manifest |-> ThroughJson(m), code |-> p.code]

\* Every step of the inspection let the upload pass.
Accepted(p) ==
    /\ EnvelopeFaults(p) = {} /\ (p.format # "mjs" => OutlineFaults(p) = {})
    /\ ContentFaults(p) = {}

\* The manifest of an accepted upload is valid, its bundle passed the scan and is one of the files.
LEMMA AcceptedContent ==
    ASSUME NEW p, Accepted(p)
    PROVE  /\ p.json = "object" /\ scanPluginSource(p.code.tokens) = {} /\ ManifestFaults(p.manifest) = {}
           /\ p.format # "mjs" => EntryOf(p) \in PathsOfClass(p, "code")
<1>1. ContentFaults(p) = {}
  BY DEF Accepted
<1>2. p.json = "object"
  BY <1>1 DEF ContentFaults
<1>3. CASE p.format = "mjs"
  <2>1. BundleFaults(p) = {}
    BY <1>1, <1>2, <1>3 DEF ContentFaults
  <2> QED BY <1>2, <1>3, <2>1 DEF BundleFaults
<1>4. CASE p.format # "mjs"
  <2> DEFINE b == CHOOSE b \in p.block : TRUE
  <2>1. BlockFaults(p, b) = {} /\ BundleFaults(p) = {}
    BY <1>1, <1>2, <1>4 DEF ContentFaults
  <2> HIDE DEF b
  <2>2. b.entry \in PathsOfClass(p, "code")
    BY <2>1 DEF BlockFaults, When
  <2> QED BY <1>2, <2>1, <2>2 DEF BundleFaults, EntryOf, b
<1> QED BY <1>3, <1>4

\* The bundle that is stored is within the limit that the worker checks.
LEMMA BundleInLimit ==
    ASSUME NEW p, Accepted(p)
    PROVE  ~ (StoredRow(p).bytes > MaxArtifact)
<1>1. CASE p.format = "mjs"
  <2>1. ~ (p.bytes > MaxArtifact)
    BY <1>1 DEF Accepted, EnvelopeFaults, When
  <2> QED BY <1>1, <2>1 DEF StoredRow
<1>2. CASE p.format # "mjs"
  <2> DEFINE files == {FilesOf(p)[i] : i \in DOMAIN FilesOf(p)}
             e == FileAt(p, EntryOf(p))
  <2>1. InventoryFaults(p) = {}
    BY <1>2 DEF Accepted, OutlineFaults
  <2>2. \A f \in files : ClassifyPath(PathOf(p, f)) = "code" => ~ (f.usize > MaxArtifact)
    <3>1. \A f \in files : LET class == ClassifyPath(PathOf(p, f))
                           IN ~ (class # "forbidden" /\ f.usize > CapOf(class))
      BY <2>1 DEF InventoryFaults, When
    <3> HIDE DEF files
    <3>2. CapOf("code") = MaxArtifact
      BY DEF CapOf
    <3> QED BY <3>1, <3>2
  <2>3. EntryOf(p) \in PathsOfClass(p, "code")
    BY <1>2, AcceptedContent
  <2>4. ClassifyPath(EntryOf(p)) = "code" /\ \E f \in files : PathOf(p, f) = EntryOf(p)
    BY <2>3 DEF PathsOfClass
  <2>5. e \in files /\ PathOf(p, e) = EntryOf(p)
    BY <2>4 DEF FileAt
  <2> HIDE DEF files, e
  <2>6. ~ (e.usize > MaxArtifact)
    BY <2>2, <2>4, <2>5
  <2> QED BY <1>2, <2>6 DEF StoredRow, e
<1> QED BY <1>1, <1>2

\* A worker finds nothing wrong with the row of an accepted upload that is honest.
LEMMA RowLoads ==
    ASSUME NEW p \in Uploads, Accepted(p), Honest(p), ReservedFaults(NormalizedManifest(p.manifest)) = {},
           <<StoredRow(p).id, StoredRow(p).version>> \notin BuiltinLanguage
    PROVE  LoadFaults(StoredRow(p)) = {}
<1> DEFINE m == p.manifest
           n == NormalizedManifest(m)
           row == StoredRow(p)
           exported == [manifest |-> m, others |-> {}, functions |-> RequiredFunctions(m.kind)]
<1>1. /\ p.json = "object" /\ scanPluginSource(p.code.tokens) = {} /\ ManifestFaults(m) = {}
  BY AcceptedContent
<1>2. ManifestShape(m)
  BY <1>1, UploadAssumption
<1>3. p.code.import = "settles" /\ Finite(m) /\ p.code.exports = {exported}
  BY DEF Honest
<1>4. ManifestFaults(n) = {} /\ NormalizedManifest(n) = n /\ ThroughJson(n) = n
  BY <1>1, <1>2, <1>3, ManifestKept, JsonKeeps
<1>5. n.id = m.id /\ n.version = m.version /\ n.kind = m.kind
  BY DEF NormalizedManifest
<1>6. /\ row.id = m.id /\ row.version = m.version /\ row.kind = m.kind /\ row.format = p.format
      /\ row.manifest = n /\ row.code = p.code
  BY <1>4, <1>5 DEF StoredRow
<1>7. ~ (row.bytes > MaxArtifact)
  BY BundleInLimit
<1>8. <<row.id, row.version>> \notin BuiltinMedia
  BY <1>5, <1>6 DEF ReservedFaults, When
<1> HIDE DEF n, row
<1>9. (CHOOSE x \in row.code.exports : TRUE) = exported
  BY <1>3, <1>6
<1>10. exported.manifest = m /\ exported.others = {} /\ exported.functions = RequiredFunctions(m.kind)
  OBVIOUS
<1> HIDE DEF exported, m
<1>11. ShapeFaults(row.code.exports) = {}
  BY <1>1, <1>3, <1>6, <1>9, <1>10 DEF ShapeFaults, When
<1>12. IdentityFaults(row, m) = {}
  BY <1>6 DEF IdentityFaults, When
<1>13. ManifestMismatch(row, m) = {}
  BY <1>4, <1>6 DEF ManifestMismatch, When, n
<1> QED BY <1>1, <1>3, <1>6, <1>7, <1>8, <1>9, <1>10, <1>11, <1>12, <1>13 DEF LoadFaults, row

\* How far an upload has come says what it passed; a row is the one of an accepted upload, and
\* what a worker found is what it finds.
PackageInv ==
    /\ pack \in Uploads
    /\ examined \in {"inflating", "read", "accepted", "installed", "loaded"} =>
         EnvelopeFaults(pack) = {} /\ (pack.format # "mjs" => OutlineFaults(pack) = {})
    /\ examined \in {"accepted", "installed", "loaded"} => ContentFaults(pack) = {}
    /\ catalogued # {} =>
         /\ examined \in {"installed", "loaded"} /\ catalogued = {StoredRow(pack)}
         /\ ReservedFaults(NormalizedManifest(pack.manifest)) = {}
         /\ examined = "loaded" => loading = LoadFaults(StoredRow(pack))
    /\ examined # "loaded" => loading = {}

\* The invariant holds of an upload that arrives, and every step keeps it.
LEMMA PackageInitially == PackageInit => PackageInv
BY DEF PackageInit, PackageInv

LEMMA PackageSteps == PackageInv /\ [PackageNext]_packageVars => PackageInv'
<1> SUFFICES ASSUME PackageInv, [PackageNext]_packageVars
             PROVE  PackageInv'
  OBVIOUS
<1>1. CASE readPluginUpload
  <2>1. /\ examined = "received" /\ UNCHANGED <<pack, catalogued, loading>> /\ catalogued = {}
        /\ examined' \in {"refused", "read", "inflating"}
        /\ examined' # "refused" =>
             EnvelopeFaults(pack) = {} /\ (pack.format # "mjs" => OutlineFaults(pack) = {})
    BY <1>1 DEF readPluginUpload, PackageInv
  <2> QED BY <2>1 DEF PackageInv
<1>2. CASE inflateEntry
  <2>1. /\ examined = "inflating" /\ UNCHANGED <<pack, catalogued, loading>> /\ catalogued = {}
        /\ examined' \in {"refused", "read", "inflating"}
    BY <1>2 DEF inflateEntry, PackageInv
  <2> QED BY <2>1 DEF PackageInv
<1>3. CASE inspectContents
  <2>1. /\ examined = "read" /\ UNCHANGED <<pack, catalogued, loading>> /\ catalogued = {}
        /\ examined' = IF ContentFaults(pack) = {} THEN "accepted" ELSE "refused"
    BY <1>3 DEF inspectContents, PackageInv
  <2> QED BY <2>1 DEF PackageInv
<1>4. CASE installPlugin
  <2>1. /\ examined = "accepted" /\ UNCHANGED <<pack, loading>>
        /\ \/ /\ examined' = "installed" /\ catalogued' = {StoredRow(pack)}
              /\ ReservedFaults(NormalizedManifest(pack.manifest)) = {}
           \/ examined' = "refused" /\ catalogued' = {}
    BY <1>4 DEF installPlugin, StoredRow, EntryOf
  <2> QED BY <2>1 DEF PackageInv
<1>5. CASE loadPluginRow
  <2>1. /\ examined = "installed" /\ examined' = "loaded" /\ UNCHANGED <<pack, catalogued>>
        /\ \E row \in catalogued : loading' = LoadFaults(row)
    BY <1>5 DEF loadPluginRow
  <2> QED BY <2>1 DEF PackageInv
<1>6. CASE UNCHANGED packageVars
  BY <1>6 DEF packageVars, PackageInv
<1> QED BY <1>1, <1>2, <1>3, <1>4, <1>5, <1>6 DEF PackageNext

\* A plugin that was installed and whose bundle exports the plugin its manifest describes is
\* loaded by a worker.
THEOREM AcceptedPackagesLoad == PackageSpec => []AcceptedLoads
<1>1. PackageInv => AcceptedLoads
  <2> SUFFICES ASSUME PackageInv, NEW row \in catalogued, Honest(pack),
                      <<row.id, row.version>> \notin BuiltinLanguage
               PROVE  loading = {}
    BY DEF AcceptedLoads
  <2>1. row = StoredRow(pack) /\ Accepted(pack) /\ ReservedFaults(NormalizedManifest(pack.manifest)) = {}
    BY DEF PackageInv, Accepted
  <2>2. LoadFaults(StoredRow(pack)) = {}
    BY <2>1, RowLoads DEF PackageInv
  <2> QED BY <2>2 DEF PackageInv
<1> QED BY <1>1, PackageInitially, PackageSteps, PTL DEF PackageSpec
=============================================================================
