--------------------------- MODULE ParameterContract ---------------------------
(***************************************************************************)
(* The contract a media model declares for its parameters, and the rules the      *)
(* browser, the API and the plugins apply to it                                    *)
(* (packages/contracts/src/media-parameter-validation.ts).                         *)
(*                                                                               *)
(* Something a declaration may leave out (a default, a bound, a dependency) is a  *)
(* set with at most one element; a set of parameters with their values is a       *)
(* function.  Numbers are counted in tenths, so that a value may have a fraction.  *)
(* A string is a word, or the width and height of a "WIDTHxHEIGHT".                *)
(***************************************************************************)
EXTENDS Integers, Sequences, FiniteSets, TLC

Number(n) == [kind |-> "number", tenths |-> n]
Word(s)   == [kind |-> "string", word |-> s]
Flag(b)   == [kind |-> "boolean", on |-> b]
Size(w, h) == [kind |-> "string", width |-> w, height |-> h]

Whole(v)      == v.tenths % 10 = 0
IsNumber(v)   == v.kind = "number"
AutoSize          == Word("auto")

\* What String(v) gives: a word.  Only whole numbers are compared with words.
StringOf(v) ==
    IF IsNumber(v) THEN Word(ToString(v.tenths \div 10))
    ELSE IF v.kind = "boolean" THEN Word(IF v.on THEN "true" ELSE "false")
    ELSE v

SameText(u, v) == u = v \/ StringOf(u) = StringOf(v)

\* Some places of a sequence in their order, and the elements there.
InOrder(places) ==
    [k \in 1 .. Cardinality(places) |-> CHOOSE i \in places : Cardinality({j \in places : j <= i}) = k]

ElementsAt(s, places) == [k \in 1 .. Cardinality(places) |-> s[InOrder(places)[k]]]

-----------------------------------------------------------------------------
(* One value.                                                                    *)

\* The geometry of a string, if it is one.
ParsedSize(v) == IF v.kind = "string" /\ "width" \in DOMAIN v /\ v.width > 0 /\ v.height > 0
                 THEN {<<v.width, v.height>>} ELSE {}

\* The rules of a constraint block that a width and a height break.
ImageConstraintViolations(c, w, h) ==
    LET long   == IF w > h THEN w ELSE h
        short  == IF w > h THEN h ELSE w
        broken == [minWidth         |-> \E m \in c.minWidth : w < m,
                   maxWidth         |-> \E m \in c.maxWidth : w > m,
                   minHeight        |-> \E m \in c.minHeight : h < m,
                   maxHeight        |-> \E m \in c.maxHeight : h > m,
                   widthMultipleOf  |-> \E m \in c.widthMultipleOf : m > 0 /\ w % m # 0,
                   heightMultipleOf |-> \E m \in c.heightMultipleOf : m > 0 /\ h % m # 0,
                   minPixels        |-> \E m \in c.minPixels : w * h < m,
                   maxPixels        |-> \E m \in c.maxPixels : w * h > m,
                   maxAspectRatio   |-> \E m \in c.maxAspectRatio : long > m * short]
    IN {rule \in DOMAIN broken : broken[rule]}

PresetValues(d) == {d.presets[i].value : i \in DOMAIN d.presets}

\* The codes with which a size is refused.  A preset must keep to the constraints too,
\* and only allowCustom admits what is not a preset.
ImageSizeIssues(d, v) ==
    LET geometry == UNION {IF \E c \in d.constraints : ImageConstraintViolations(c, g[1], g[2]) # {}
                           THEN {"MEDIA_PARAMETER_CONSTRAINT_FAILED"} ELSE {} : g \in ParsedSize(v)}
        preset   == v \in PresetValues(d)
    IN IF v.kind # "string"          THEN {"INVALID_PARAMETER_TYPE"}
       ELSE IF preset /\ v = AutoSize THEN {}
       ELSE IF (~preset /\ ~d.allowCustom) \/ (preset /\ ParsedSize(v) = {})
                                     THEN {"UNSUPPORTED_MEDIA_PARAMETER"}
       ELSE IF ParsedSize(v) = {}    THEN {"MEDIA_PARAMETER_CONSTRAINT_FAILED"}
       ELSE geometry

RangeIssues(d, v) ==
    IF (\E m \in d.min : v.tenths < m) \/ (\E m \in d.max : v.tenths > m)
    THEN {"PARAMETER_OUT_OF_RANGE"}
    ELSE LET base == IF d.min = {} THEN 0 ELSE CHOOSE m \in d.min : TRUE
         IN IF \/ \E p \in d.precision : v.tenths % p # 0
               \/ \E s \in d.step : s > 0 /\ (v.tenths - base) % s # 0
            THEN {"PARAMETER_STEP_MISMATCH"} ELSE {}

TextIssues(d, v) ==
    LET length == IF "word" \in DOMAIN v THEN Len(v.word) ELSE 3
    IN IF \E m \in d.minLength : length < m      THEN {"TEXT_TOO_SHORT"}
       ELSE IF \E m \in d.maxLength : length > m THEN {"TEXT_TOO_LONG"}
       ELSE IF \E p \in d.pattern : v \notin p    THEN {"TEXT_PATTERN_MISMATCH"}
       ELSE {}

WrongType(d, v) ==
    CASE d.type = "integer" -> ~IsNumber(v) \/ ~Whole(v)
      [] d.type = "number"  -> ~IsNumber(v)
      [] d.type = "boolean" -> v.kind # "boolean"
      [] OTHER              -> v.kind # "string"

OptionValues(d) == {d.options[i] : i \in DOMAIN d.options}

\* The codes with which one descriptor refuses a value: none when the value is legal.
ValueIssues(d, v) ==
    IF WrongType(d, v) THEN {"INVALID_PARAMETER_TYPE"}
    ELSE CASE d.type = "enum"                  -> IF v \in OptionValues(d) THEN {}
                                                  ELSE {"UNSUPPORTED_MEDIA_PARAMETER"}
           [] d.type \in {"integer", "number"} -> RangeIssues(d, v)
           [] d.type = "text"                  -> TextIssues(d, v)
           [] d.type = "image-size"            -> ImageSizeIssues(d, v)
           [] OTHER                            -> {}

Legal(d, v) == ValueIssues(d, v) = {}

-----------------------------------------------------------------------------
(* Parameters together.                                                           *)

NamesOf(parameters)       == {parameters[i].name : i \in DOMAIN parameters}
DescriptorsOf(parameters) == {parameters[i] : i \in DOMAIN parameters}
Descriptor(parameters, n) == CHOOSE d \in DescriptorsOf(parameters) : d.name = n

\* A parameter exists only while the one it depends on has a value that calls for it.
IsParameterVisible(d, values) ==
    \A dep \in d.dependsOn :
        /\ dep.parameter \in DOMAIN values
        /\ \E e \in dep.values : SameText(e, values[dep.parameter])

\* One issue of a combination: its code, and the parameters it is about.
Issue(code, about) == [code |-> code, about |-> about]

\* The issues of one relation between two parameters, its source and its target.
Source(rule) == IF rule.type \in {"requires", "forbidden"} THEN rule.parameter ELSE rule.pair[1]

CrossFieldIssues(rule, values) ==
    LET set(n)     == n \in DOMAIN values
        condition  == /\ set(rule.parameter) \/ rule.whenValueEquals # {}
                      /\ \A w \in rule.whenValueEquals :
                             set(rule.parameter) /\ SameText(values[rule.parameter], w)
        a          == Source(rule)
        b          == rule.pair[2]
        broken     ==
            CASE rule.type = "max_product" ->
                     /\ set(a) /\ set(b)
                     /\ IsNumber(values[a]) /\ IsNumber(values[b])
                     /\ \E m \in rule.maxProduct : values[a].tenths * values[b].tenths > m
              [] rule.type = "mutually_exclusive" -> set(a) /\ set(b)
              [] rule.type = "requires"  -> condition /\ ~set(b)
              [] rule.type = "forbidden" ->
                     /\ condition /\ set(b)
                     /\ \A t \in rule.targetValues : \E x \in t : SameText(x, values[b])
        code       == CASE rule.type = "max_product"        -> "MAX_PRODUCT_EXCEEDED"
                        [] rule.type = "mutually_exclusive" -> "MUTUALLY_EXCLUSIVE_PARAMETERS"
                        [] rule.type = "requires"           -> "REQUIRED_FIELD_MISSING"
                        [] OTHER                            -> "MEDIA_PARAMETER_CONSTRAINT_FAILED"
    IN IF broken THEN {Issue(code, {a, b})} ELSE {}

EvaluateCrossFieldConstraints(rules, values) == UNION {CrossFieldIssues(r, values) : r \in rules}

\* What of a selection survives a change of model: the values of declared parameters that
\* are visible among the values before the change, and legal.
ReconcileParameters(parameters, values) ==
    [n \in {m \in DOMAIN values \cap NamesOf(parameters) :
                LET d == Descriptor(parameters, m)
                IN IsParameterVisible(d, values) /\ Legal(d, values[m])} |-> values[n]]

-----------------------------------------------------------------------------
(* A declaration.                                                                 *)

DescriptorTypes == {"enum", "integer", "number", "boolean", "text", "image-size"}
GenerationModes == {"text_to_image", "image_to_image", "text_to_video", "image_to_video"}

Repeats(s) == \E i, j \in DOMAIN s : i < j /\ s[i] = s[j]

Above(low, high) == \E a \in low, b \in high : a > b

ImageSizeFindings(d) ==
    LET values  == [i \in DOMAIN d.presets |-> d.presets[i].value]
        broken(p) == /\ p.value # AutoSize
                     /\ \/ ParsedSize(p.value) = {}
                        \/ \E g \in ParsedSize(p.value) :
                               \/ \E c \in d.constraints : ImageConstraintViolations(c, g[1], g[2]) # {}
                               \/ \E shown \in p.geometry : shown # g
        badBand(c) == \/ Above(c.minWidth, c.maxWidth) \/ Above(c.minHeight, c.maxHeight)
                      \/ Above(c.minPixels, c.maxPixels)
    IN (IF \/ d.presets = <<>>
           \/ d.allowCustom /\ d.constraints = {}
           \/ \E c \in d.constraints : badBand(c)
           \/ \E i \in DOMAIN d.presets : broken(d.presets[i])
           \/ Repeats(values)
        THEN {"INVALID_IMAGE_SIZE_RULES"} ELSE {})
       \cup (IF \E v \in d.default : v.kind = "string" /\ v \notin PresetValues(d)
             THEN {"DEFAULT_NOT_ALLOWED"} ELSE {})

\* The rules one descriptor breaks; `declared` are the names up to and including its own.
\* The default of a flag or of a text is not looked at, nor one of another type.
DescriptorFindings(d, declared) ==
    IF d.type \notin DescriptorTypes THEN {"UNKNOWN_PARAMETER_TYPE"}
    ELSE (IF \E dep \in d.dependsOn : dep.parameter \notin declared
          THEN {"CROSS_FIELD_UNKNOWN_PARAMETER"} ELSE {})
         \cup CASE d.type = "image-size" -> ImageSizeFindings(d)
                [] d.type = "enum" ->
                       (IF d.options = <<>> \/ Repeats(d.options)
                        THEN {"INVALID_MODEL_CAPABILITIES"} ELSE {})
                       \cup (IF \E v \in d.default : v.kind = "string" /\ v \notin OptionValues(d)
                             THEN {"DEFAULT_NOT_ALLOWED"} ELSE {})
                [] d.type \in {"integer", "number"} ->
                       (IF Above(d.min, d.max) THEN {"INVALID_MODEL_CAPABILITIES"} ELSE {})
                       \cup (IF \E v \in d.default : IsNumber(v) /\ ~Legal(d, v)
                             THEN {"DEFAULT_NOT_ALLOWED"} ELSE {})
                [] OTHER -> {}

ParameterFindings(parameters) ==
    UNION {LET d == parameters[i]
               before == {parameters[j].name : j \in 1 .. i - 1}
           IN IF d.name \in before THEN {"INVALID_MODEL_CAPABILITIES"}
              ELSE DescriptorFindings(d, before \cup {d.name}) : i \in DOMAIN parameters}

InputSlotFindings(slots) ==
    IF \E i \in DOMAIN slots : LET s == slots[i]
                               IN s.maxCount < s.minCount \/ (s.required /\ s.maxCount = 0)
    THEN {"INVALID_MODEL_CAPABILITIES"} ELSE {}

\* Two spellings of one fact must agree, for models of images.
FlagModeFindings(flags, modes) ==
    LET says(f, b) == \E on \in flags[f] : on = b
        text       == "text_to_image" \in modes
        image      == "image_to_image" \in modes
    IN IF /\ text \/ image
          /\ \/ says("textToImage", ~text)
             \/ says("imageToImage", ~image)
             \/ ~image /\ (says("inpainting", TRUE) \/ says("imageEdit", TRUE))
       THEN {"CAPABILITY_MODE_MISMATCH"} ELSE {}

CouplingTypes == {"requires", "forbidden", "mutually_exclusive", "max_product"}

CrossFieldFindings(rules, parameters) ==
    (IF \E r \in rules : r.type \notin CouplingTypes THEN {"INVALID_MODEL_CAPABILITIES"} ELSE {})
    \cup (IF \E r \in rules : ~({r.parameter, r.pair[1], r.pair[2]} \subseteq NamesOf(parameters))
          THEN {"CROSS_FIELD_UNKNOWN_PARAMETER"} ELSE {})

DefaultFindings(defaults, parameters) ==
    IF \E n \in DOMAIN defaults :
           n \notin NamesOf(parameters) \/ ~Legal(Descriptor(parameters, n), defaults[n])
    THEN {"DEFAULT_NOT_ALLOWED"} ELSE {}

\* Every rule a declaration breaks: it is accepted when there is none.
DeclarationFindings(c) ==
    (IF c.modes \subseteq GenerationModes THEN {} ELSE {"INVALID_MODEL_CAPABILITIES"})
    \cup ParameterFindings(c.parameters)
    \cup InputSlotFindings(c.inputSlots)
    \cup FlagModeFindings(c.flags, c.modes)
    \cup CrossFieldFindings(c.crossFieldConstraints, c.parameters)
    \cup DefaultFindings(c.defaults, c.parameters)

Undeclared == [modes |-> {}, parameters |-> <<>>, inputSlots |-> <<>>, maxCount |-> {}, video |-> FALSE,
               flags |-> [f \in {"textToImage", "imageToImage", "imageEdit", "inpainting"} |-> {}],
               crossFieldConstraints |-> {}, defaults |-> <<>>, declared |-> FALSE]

\* What a reader of a stored revision works with: it is validated again at each reading, and a
\* maximum it does not give is none.
CapabilitiesFromRow(c) ==
    IF DeclarationFindings(c) # {} THEN Undeclared
    ELSE [c EXCEPT !.maxCount = IF @ = {} THEN {0} ELSE @]

-----------------------------------------------------------------------------
(* A request under a contract: the check of the API, of a new request as of a retry     *)
(* (packages/domain/src/index.ts), and the check of a plugin.                           *)

Times(roles, r) == Cardinality({i \in DOMAIN roles : roles[i] = r})

\* The default the API puts in: the model's, then the descriptor's own.
ApiDefault(c, d) == IF d.name \in DOMAIN c.defaults THEN {c.defaults[d.name]} ELSE d.default

\* Mutant: the default of a parameter is put in whether or not it is visible.
NormalizedWithHidden(c, raw) ==
    LET value(d) == IF d.name \in DOMAIN raw THEN {raw[d.name]} ELSE ApiDefault(c, d)
        kept     == {d \in DescriptorsOf(c.parameters) : value(d) # {}}
    IN [n \in {d.name : d \in kept} |-> CHOOSE v \in value(Descriptor(c.parameters, n)) : TRUE]

\* The parameters a request stands for: what it gives, and the defaults of what it does not,
\* for the parameters that are visible among what it gives.
NormalizedParameters(c, raw) ==
    LET value(d) == IF d.name \in DOMAIN raw
                    THEN IF Legal(d, raw[d.name]) THEN {raw[d.name]} ELSE {}
                    ELSE ApiDefault(c, d)
        kept     == {d \in DescriptorsOf(c.parameters) : IsParameterVisible(d, raw) /\ value(d) # {}}
    IN [n \in {d.name : d \in kept} |-> CHOOSE v \in value(Descriptor(c.parameters, n)) : TRUE]

ValueRefusals(c, raw) ==
    {Issue("UNKNOWN_PARAMETER", {n}) : n \in DOMAIN raw \ NamesOf(c.parameters)}
    \cup UNION {IF d.name \notin DOMAIN raw
                THEN IF d.required /\ ApiDefault(c, d) = {}
                     THEN {Issue("MISSING_REQUIRED_PARAMETER", {d.name})} ELSE {}
                ELSE {Issue(code, {d.name}) : code \in ValueIssues(d, raw[d.name])}
                : d \in {e \in DescriptorsOf(c.parameters) : IsParameterVisible(e, raw)}}

CountRefusals(c, parameters) ==
    IF "count" \in DOMAIN parameters /\ \E m \in c.maxCount : parameters["count"].tenths > 10 * m
    THEN {Issue("INVALID_COUNT", {"count"})} ELSE {}

\* Inputs are refused for a role without a slot and for a number its slot does not take.
InputRefusals(c, roles) ==
    LET slots    == {c.inputSlots[i] : i \in DOMAIN c.inputSlots}
        absent   == {s \in slots : s.required /\ Times(roles, s.role) = 0}
        too(few) == {Issue(IF few THEN "INPUT_COUNT_TOO_LOW" ELSE "INPUT_COUNT_EXCEEDED", {s.role}) :
                        s \in {t \in slots \ absent : IF few THEN Times(roles, t.role) < t.minCount
                                                    ELSE Times(roles, t.role) > t.maxCount}}
    IN {Issue("UNKNOWN_INPUT_ROLE", {roles[i]}) :
            i \in {j \in DOMAIN roles : \A s \in slots : s.role # roles[j]}}
       \cup {Issue("MISSING_REQUIRED_INPUT", {s.role}) : s \in absent}
       \cup too(TRUE) \cup too(FALSE)

\* The mode of a request, of those the model has.
Mode(c, roles) ==
    LET derived == IF roles = <<>> THEN IF c.video THEN "text_to_video" ELSE "text_to_image"
                   ELSE IF c.video THEN "image_to_video" ELSE "image_to_image"
    IN IF derived \in c.modes THEN {derived} ELSE c.modes

\* Mutant: the couplings of parameters are left to the plugin.
ValidateEachAlone(c, raw, roles) ==
    IF ~c.declared THEN {Issue("MODEL_CAPABILITIES_UNDECLARED", {})}
    ELSE ValueRefusals(c, raw) \cup CountRefusals(c, NormalizedParameters(c, raw)) \cup InputRefusals(c, roles)
         \cup (IF Mode(c, roles) = {} THEN {Issue("UNSUPPORTED_GENERATION_MODE", {})} ELSE {})

\* Every reason to refuse a request under a contract: the check of a new request and of a retry.
ValidateGenerationRequest(c, raw, roles) ==
    LET normalized == NormalizedParameters(c, raw)
    IN IF ~c.declared THEN {Issue("MODEL_CAPABILITIES_UNDECLARED", {})}
       ELSE ValueRefusals(c, raw)
            \cup EvaluateCrossFieldConstraints(c.crossFieldConstraints, normalized)
            \cup CountRefusals(c, normalized)
            \cup InputRefusals(c, roles)
            \cup (IF Mode(c, roles) = {} THEN {Issue("UNSUPPORTED_GENERATION_MODE", {})} ELSE {})

\* The plugin's check: of what was sent only, whether or not it is visible.
ValidateAgainstDeclaration(c, sent) ==
    EvaluateCrossFieldConstraints(
        c.crossFieldConstraints, [n \in DOMAIN sent \cap NamesOf(c.parameters) |-> sent[n]])
    \cup UNION {IF d.name \notin DOMAIN sent
                THEN IF d.required /\ d.default = {}
                     THEN {Issue("MISSING_REQUIRED_PARAMETER", {d.name})} ELSE {}
                ELSE {Issue(code, {d.name}) : code \in ValueIssues(d, sent[d.name])}
                : d \in DescriptorsOf(c.parameters)}

-----------------------------------------------------------------------------
(* What declarations are built of.                                                *)

Plain(type, name) ==
    [type |-> type, name |-> name, required |-> FALSE, default |-> {}, dependsOn |-> {}]
Enum(name, options) ==
    [type |-> "enum", name |-> name, required |-> FALSE, default |-> {}, dependsOn |-> {}, options |-> options]
Integer(name, low, high, step) ==
    [type |-> "integer", name |-> name, required |-> FALSE, default |-> {}, dependsOn |-> {},
     min |-> {low}, max |-> {high}, step |-> step, precision |-> {}]
Switch(name) == Plain("boolean", name)
ImageSize(name, presets, allowCustom, constraints) ==
    [type |-> "image-size", name |-> name, required |-> FALSE, default |-> {}, dependsOn |-> {},
     presets |-> presets, allowCustom |-> allowCustom, constraints |-> constraints]

Preset(w, h) == [value |-> Size(w, h), geometry |-> {<<w, h>>}]
AutoPreset   == [value |-> AutoSize, geometry |-> {}]
NoConstraint == [r \in {"minWidth", "maxWidth", "minHeight", "maxHeight", "widthMultipleOf",
                        "heightMultipleOf", "minPixels", "maxPixels", "maxAspectRatio"} |-> {}]

\* The parameter exists while the other one has one of these values.
On(parent, values) == {[parameter |-> parent, values |-> values]}

Slot(role, required, most) ==
    [role |-> role, required |-> required, minCount |-> 0, maxCount |-> most, kinds |-> {"image"}]

\* A value of one parameter that rules out values of another.
Forbidden(parameter, value, target, values) ==
    [type |-> "forbidden", parameter |-> parameter, pair |-> <<parameter, target>>,
     whenValueEquals |-> {value}, targetValues |-> {values}, maxProduct |-> {}]
=============================================================================
