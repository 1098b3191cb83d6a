------------------------- MODULE ProviderRequestProofs -------------------------
(***************************************************************************)
(* An admitted order on its way to the provider and back, for every set of *)
(* requests, images, drawings, answers and credentials: no adapter refuses *)
(* what the API let through, its parameters and images are on the wire as  *)
(* they were ordered, a mask is what was drawn, and what the provider gives*)
(* for it is kept.                                                         *)
(*                                                                         *)
(* Nothing of this follows from one line of code: the API checks the       *)
(* contract, the worker builds the request, and each adapter reads it in its*)
(* own way.  So the argument goes through what is known of an order while it*)
(* waits (Fine): its parameters are legal under the declaration of its model*)
(* (Kept), its images fit the slots (Carried), and a mask that was drawn has*)
(* the geometry of its picture (Drawn).  For each adapter follows what it may*)
(* still refuse (...Takes), where each parameter goes (...Reaches) and each*)
(* image (...Partition).  What was sent is then a function of the order    *)
(* (WireInv).                                                              *)
(***************************************************************************)
EXTENDS RequestProofs, ProviderRequests

-----------------------------------------------------------------------------
(* What the bundled declarations say, as a table: for every model the names of its    *)
(* parameters, their types, and what they depend on.                                *)


\* A declaration without findings is published as it is, and is sound.
LEMMA DeclarationSound ==
    ASSUME NEW d, DOMAIN d = DOMAIN Undeclared, d = [f \in DOMAIN d |-> d[f]],
           Len(d.parameters) \in Nat, DOMAIN d.parameters = 1 .. Len(d.parameters), DeclarationFindings(d) = {}
    PROVE  LET c == CapabilitiesFromRow(d)
           IN /\ Sound(c)
              /\ c.parameters = d.parameters /\ c.inputSlots = d.inputSlots /\ c.defaults = d.defaults
              /\ c.crossFieldConstraints = d.crossFieldConstraints
              /\ c.declared = d.declared /\ c.video = d.video
<1> DEFINE c == CapabilitiesFromRow(d)
<1>3. c = [d EXCEPT !.maxCount = IF @ = {} THEN {0} ELSE @]
  BY DEF CapabilitiesFromRow
<1>5. /\ c.parameters = d.parameters /\ c.inputSlots = d.inputSlots /\ c.defaults = d.defaults
      /\ c.crossFieldConstraints = d.crossFieldConstraints
      /\ c.declared = d.declared /\ c.video = d.video
  BY <1>3 DEF Undeclared
<1>6. /\ ParameterFindings(d.parameters) = {}
      /\ CrossFieldFindings(d.crossFieldConstraints, d.parameters) = {}
      /\ DefaultFindings(d.defaults, d.parameters) = {}
  BY DEF DeclarationFindings
<1>7. SoundParameters(d.parameters)
  BY <1>6, ParametersSound
<1>8. \A r \in d.crossFieldConstraints :
         /\ r.type \in CouplingTypes
         /\ {r.parameter, r.pair[1], r.pair[2]} \subseteq NamesOf(d.parameters)
  BY <1>6 DEF CrossFieldFindings
<1>9. \A n \in DOMAIN d.defaults :
         n \in NamesOf(d.parameters) /\ Legal(Descriptor(d.parameters, n), d.defaults[n])
  BY <1>6 DEF DefaultFindings
<1> QED
  BY <1>5, <1>7, <1>8, <1>9 DEF Sound

-----------------------------------------------------------------------------
(* The declarations of the bundled adapters. *)

\* An entry of the catalog, field by field.
Entry(c, ps, slots, rules) ==
    /\ DOMAIN c = DOMAIN Undeclared /\ c = [f \in DOMAIN c |-> c[f]]
    /\ c.parameters = ps /\ c.inputSlots = slots /\ c.crossFieldConstraints = rules
    /\ c.defaults = <<>> /\ c.declared

\* An entry of the catalog is a record with every field of a declaration.
LEMMA ImageEntry ==
    ASSUME NEW ps, NEW slots, NEW most
    PROVE  Entry(ImageModel(ps, slots, most), ps, slots, {}) /\ ~ImageModel(ps, slots, most).video
BY DEF ImageModel, Undeclared, Entry

\* The same of an entry for a model of videos.
LEMMA VideoEntry ==
    ASSUME NEW ps, NEW slots
    PROVE  Entry(VideoModel(ps, slots), ps, slots, {}) /\ VideoModel(ps, slots).video
BY DEF VideoModel, Undeclared, Entry

\* Rules put into an entry change nothing else of it.
LEMMA RulesAdded ==
    ASSUME NEW c, NEW ps, NEW slots, Entry(c, ps, slots, {}), NEW rules
    PROVE  /\ Entry([c EXCEPT !.crossFieldConstraints = rules], ps, slots, rules)
           /\ [c EXCEPT !.crossFieldConstraints = rules].video = c.video
BY DEF Undeclared, Entry

\* Neither do flags.
LEMMA FlagsKept ==
    ASSUME NEW c, NEW ps, NEW slots, NEW rules, Entry(c, ps, slots, rules), NEW f
    PROVE  /\ Entry([c EXCEPT !.flags = f], ps, slots, rules)
           /\ [c EXCEPT !.flags = f].video = c.video
BY DEF Undeclared, Entry


KindOf(type) == IF type = "boolean" THEN "boolean" ELSE IF type = "integer" THEN "number" ELSE "string"

Optional == {"seed", "camera_fixed", "frames"}

\* A number is one.
Proper(v) == IsNumber(v) => v.tenths \in Int /\ v = Number(v.tenths)

\* What of a declared parameter does not depend on its type.
Shape(d, type, name, dependsOn) ==
    /\ d.type = type /\ d.name = name /\ d.required = FALSE /\ d.dependsOn = dependsOn
    /\ name \notin Optional => d.default # {}
    /\ \A v \in d.default : v.kind = KindOf(type) /\ Proper(v)

\* Of whole numbers, from a least to a greatest one.
Between(d, low, high) == d.min = {low} /\ d.max = {high} /\ d.step = {} /\ d.precision = {}

\* The kinds of the values the declarations name.
LEMMA Kinds ==
    /\ \A w : Word(w).kind = "string"
    /\ AutoSize.kind = "string"
    /\ \A w, h : Size(w, h).kind = "string"
    /\ \A n : Number(n).kind = "number"
    /\ \A b : Flag(b).kind = "boolean"
    /\ KindOf("enum") = "string" /\ KindOf("image-size") = "string" /\ KindOf("integer") = "number"
    /\ KindOf("boolean") = "boolean"
    /\ \A v : v.kind # "number" => Proper(v)
    /\ \A n \in Int : Proper(Number(n))
BY DEF Word, Size, Number, Flag, AutoSize, KindOf, Proper, IsNumber

\* Each way to declare a parameter gives the shape of its type.
LEMMA EnumShape ==
    ASSUME NEW name, NEW options, NEW w
    PROVE  /\ Shape(Defaulted(Enum(name, options), Word(w)), "enum", name, {})
           /\ Defaulted(Enum(name, options), Word(w)).options = options
BY Kinds DEF Shape, Enum, Defaulted

\* A number between two others.
LEMMA IntegerShape ==
    ASSUME NEW name, NEW low, NEW high, NEW n \in Int
    PROVE  /\ name \in Optional => Shape(Integer(name, low, high, {}), "integer", name, {})
           /\ Shape(Defaulted(Integer(name, low, high, {}), Number(n)), "integer", name, {})
           /\ Between(Defaulted(Integer(name, low, high, {}), Number(n)), low, high)
BY Kinds DEF Shape, Integer, Defaulted, Between

\* A switch.
LEMMA SwitchShape ==
    ASSUME NEW name, NEW b
    PROVE  /\ name \in Optional => Shape(Switch(name), "boolean", name, {})
           /\ Shape(Defaulted(Switch(name), Flag(b)), "boolean", name, {})
BY Kinds DEF Shape, Switch, Plain, Defaulted

\* A size.
LEMMA SizeShape ==
    ASSUME NEW presets, NEW custom, NEW constraints, NEW v, v.kind = "string"
    PROVE  /\ Shape(Defaulted(ImageSize("size", presets, custom, constraints), v), "image-size", "size", {})
           /\ Defaulted(ImageSize("size", presets, custom, constraints), v).presets = presets
BY Kinds DEF Shape, ImageSize, Defaulted

\* The compression of an output, which depends on its format.
LEMMA CompressionShape ==
    Shape(Compression, "integer", "output_compression", On("output_format", {Word("jpeg"), Word("webp")}))
BY Kinds DEF Shape, Compression, Integer

\* The number of images.
LEMMA CountShape ==
    ASSUME NEW k
    PROVE  Shape(CountUpTo(k), "integer", "count", {}) /\ Between(CountUpTo(k), 10, 10 * k)
BY IntegerShape DEF CountUpTo

-----------------------------------------------------------------------------
(* The catalog as a table. *)

Modern == {"gpt-image-2.5", "gpt-image-2"}

TableNames(m) ==
    IF m \in Modern THEN {"size", "quality", "background", "output_format", "output_compression", "count"}
    ELSE IF m = "gpt-image-1.5" THEN {"size", "quality", "input_fidelity", "count"}
    ELSE IF m = "dall-e-3" THEN {"size", "quality", "count"}
    ELSE IF m \in Seedreams THEN {"size", "count", "watermark"}
    ELSE IF m \in Veos THEN {"durationSeconds", "aspectRatio", "resolution", "audio", "count"}
    ELSE {"durationSeconds", "aspectRatio", "resolution", "audio", "count", "seed", "watermark", "camera_fixed",
          "frames"}

TableType(m, n) ==
    IF n = "size" THEN "image-size"
    ELSE IF n \in {"watermark", "audio", "camera_fixed"} THEN "boolean"
    ELSE IF n \in {"count", "output_compression", "seed", "frames"} \/ (m = "seedance" /\ n = "durationSeconds")
         THEN "integer"
    ELSE "enum"

\* A parameter of a bundled model.
Tabled(m, d) ==
    /\ d.required = FALSE /\ d.name \in TableNames(m) /\ d.type = TableType(m, d.name)
    /\ d.dependsOn = IF d.name = "output_compression" THEN On("output_format", {Word("jpeg"), Word("webp")}) ELSE {}
    /\ d.name \notin Optional => d.default # {}
    /\ \A v \in d.default : v.kind = KindOf(d.type) /\ Proper(v)

\* The size of an image of OpenAI: its default is its first preset.
LEMMA GptSizeShape ==
    ASSUME NEW presets, NEW custom, presets[1].value.kind = "string"
    PROVE  Shape(GptSize(presets, custom), "image-size", "size", {})
<1> DEFINE constraints == IF custom THEN {[NoConstraint EXCEPT
                                            !.maxWidth = {3840}, !.maxHeight = {3840},
                                            !.widthMultipleOf = {16}, !.heightMultipleOf = {16},
                                            !.minPixels = {655360}, !.maxPixels = {8294400},
                                            !.maxAspectRatio = {3}]} ELSE {}
<1>1. GptSize(presets, custom) = Defaulted(ImageSize("size", presets, custom, constraints), presets[1].value)
  BY SMT DEF GptSize
<1> HIDE DEF constraints
<1> QED
  BY <1>1, SizeShape


\* Presets are geometries, never the word for the size of the input.
LEMMA SizesAre ==
    ASSUME NEW s \in Seq(Nat \X Nat)
    PROVE  /\ DOMAIN Sizes(s) = 1 .. Len(s)
           /\ \A i \in 1 .. Len(s) : Sizes(s)[i].value.kind = "string" /\ Sizes(s)[i].value # AutoSize
<1>1. \A i \in 1 .. Len(s) : s[i][1] \in Nat /\ s[i][2] \in Nat
  OBVIOUS
<1>2. Sizes(s) = [i \in 1 .. Len(s) |-> Preset(s[i][1], s[i][2])]
  BY DEF Sizes
<1>4. \A i \in 1 .. Len(s) : Sizes(s)[i].value = Size(s[i][1], s[i][2])
  BY <1>2 DEF Preset
<1>5. \A w, h : Size(w, h).kind = "string" /\ Size(w, h) # AutoSize
  BY DEF Size, AutoSize, Word
<1> QED
  BY <1>2, <1>4, <1>5

\* That word can be put before them.
LEMMA AutoFirst ==
    ASSUME NEW s \in Seq(Nat \X Nat)
    PROVE  (<<AutoPreset>> \o Sizes(s))[1].value = AutoSize
<1>1. Sizes(s) \in Seq({Preset(w, h) : w, h \in Nat} \cup {AutoPreset}) /\ <<AutoPreset>> \in Seq({Preset(w, h) : w, h \in Nat} \cup {AutoPreset})
  BY DEF Sizes
<1>2. (<<AutoPreset>> \o Sizes(s))[1] = AutoPreset
  BY <1>1
<1> QED
  BY <1>2 DEF AutoPreset

\* The recent models of OpenAI have the parameters of the table, each in its shape.
LEMMA ModernTable ==
    ASSUME NEW m \in Modern, NEW ps, DOMAIN ps = 1 .. 6,
           Shape(ps[1], "image-size", "size", {}),
           Shape(ps[2], "enum", "quality", {}),
           Shape(ps[3], "enum", "background", {}),
           Shape(ps[4], "enum", "output_format", {}),
           Shape(ps[5], "integer", "output_compression", On("output_format", {Word("jpeg"), Word("webp")})),
           Shape(ps[6], "integer", "count", {})
    PROVE  (\A d \in DescriptorsOf(ps) : Tabled(m, d)) /\ NamesOf(ps) = TableNames(m)
<1>1. \A i \in 1 .. 6 : i = 1 \/ i = 2 \/ i = 3 \/ i = 4 \/ i = 5 \/ i = 6
  OBVIOUS
<1>2. TableNames(m) = {"size", "quality", "background", "output_format", "output_compression", "count"}
  BY DEF TableNames, Modern
<1>3. NamesOf(ps) = {"size", "quality", "background", "output_format", "output_compression", "count"}
  BY DEF NamesOf, Shape
<1>4. ASSUME NEW i \in 1 .. 6
      PROVE  Tabled(m, ps[i])
  <2>1. Tabled(m, ps[1])
    BY <1>2 DEF Tabled, Shape, TableType, KindOf, Optional, Modern
  <2>2. Tabled(m, ps[2])
    BY <1>2 DEF Tabled, Shape, TableType, KindOf, Optional, Modern
  <2>3. Tabled(m, ps[3])
    BY <1>2 DEF Tabled, Shape, TableType, KindOf, Optional, Modern
  <2>4. Tabled(m, ps[4])
    BY <1>2 DEF Tabled, Shape, TableType, KindOf, Optional, Modern
  <2>5. Tabled(m, ps[5])
    BY <1>2 DEF Tabled, Shape, TableType, KindOf, Optional, Modern
  <2>6. Tabled(m, ps[6])
    BY <1>2 DEF Tabled, Shape, TableType, KindOf, Optional, Modern
  <2> QED
    BY <1>1, <2>1, <2>2, <2>3, <2>4, <2>5, <2>6
<1> QED
  BY <1>2, <1>3, <1>4 DEF DescriptorsOf


\* So has the model with an input fidelity,
LEMMA FidelityTable ==
    ASSUME NEW m \in {"gpt-image-1.5"}, NEW ps, DOMAIN ps = 1 .. 4,
           Shape(ps[1], "image-size", "size", {}),
           Shape(ps[2], "enum", "quality", {}),
           Shape(ps[3], "enum", "input_fidelity", {}),
           Shape(ps[4], "integer", "count", {})
    PROVE  (\A d \in DescriptorsOf(ps) : Tabled(m, d)) /\ NamesOf(ps) = TableNames(m)
<1>1. \A i \in 1 .. 4 : i = 1 \/ i = 2 \/ i = 3 \/ i = 4
  OBVIOUS
<1>2. TableNames(m) = {"size", "quality", "input_fidelity", "count"}
  BY DEF TableNames, Modern, Seedreams, Veos
<1>3. NamesOf(ps) = {"size", "quality", "input_fidelity", "count"}
  BY DEF NamesOf, Shape
<1>4. ASSUME NEW i \in 1 .. 4
      PROVE  Tabled(m, ps[i])
  <2>1. Tabled(m, ps[1])
    BY <1>2 DEF Tabled, Shape, TableType, KindOf, Optional, Modern, Seedreams, Veos
  <2>2. Tabled(m, ps[2])
    BY <1>2 DEF Tabled, Shape, TableType, KindOf, Optional, Modern, Seedreams, Veos
  <2>3. Tabled(m, ps[3])
    BY <1>2 DEF Tabled, Shape, TableType, KindOf, Optional, Modern, Seedreams, Veos
  <2>4. Tabled(m, ps[4])
    BY <1>2 DEF Tabled, Shape, TableType, KindOf, Optional, Modern, Seedreams, Veos
  <2> QED
    BY <1>1, <2>1, <2>2, <2>3, <2>4
<1> QED
  BY <1>2, <1>3, <1>4 DEF DescriptorsOf


\* so has DALL-E,
LEMMA DallETable ==
    ASSUME NEW m \in {"dall-e-3"}, NEW ps, DOMAIN ps = 1 .. 3,
           Shape(ps[1], "image-size", "size", {}),
           Shape(ps[2], "enum", "quality", {}),
           Shape(ps[3], "integer", "count", {})
    PROVE  (\A d \in DescriptorsOf(ps) : Tabled(m, d)) /\ NamesOf(ps) = TableNames(m)
<1>1. \A i \in 1 .. 3 : i = 1 \/ i = 2 \/ i = 3
  OBVIOUS
<1>2. TableNames(m) = {"size", "quality", "count"}
  BY DEF TableNames, Modern, Seedreams, Veos
<1>3. NamesOf(ps) = {"size", "quality", "count"}
  BY DEF NamesOf, Shape
<1>4. ASSUME NEW i \in 1 .. 3
      PROVE  Tabled(m, ps[i])
  <2>1. Tabled(m, ps[1])
    BY <1>2 DEF Tabled, Shape, TableType, KindOf, Optional, Modern, Seedreams, Veos
  <2>2. Tabled(m, ps[2])
    BY <1>2 DEF Tabled, Shape, TableType, KindOf, Optional, Modern, Seedreams, Veos
  <2>3. Tabled(m, ps[3])
    BY <1>2 DEF Tabled, Shape, TableType, KindOf, Optional, Modern, Seedreams, Veos
  <2> QED
    BY <1>1, <2>1, <2>2, <2>3
<1> QED
  BY <1>2, <1>3, <1>4 DEF DescriptorsOf


\* so have the models of Seedream,
LEMMA SeedreamTable ==
    ASSUME NEW m \in Seedreams, NEW ps, DOMAIN ps = 1 .. 3,
           Shape(ps[1], "image-size", "size", {}),
           Shape(ps[2], "integer", "count", {}),
           Shape(ps[3], "boolean", "watermark", {})
    PROVE  (\A d \in DescriptorsOf(ps) : Tabled(m, d)) /\ NamesOf(ps) = TableNames(m)
<1>1. \A i \in 1 .. 3 : i = 1 \/ i = 2 \/ i = 3
  OBVIOUS
<1>2. TableNames(m) = {"size", "count", "watermark"}
  BY DEF TableNames, Modern, Seedreams, Veos
<1>3. NamesOf(ps) = {"size", "count", "watermark"}
  BY DEF NamesOf, Shape
<1>4. ASSUME NEW i \in 1 .. 3
      PROVE  Tabled(m, ps[i])
  <2>1. Tabled(m, ps[1])
    BY <1>2 DEF Tabled, Shape, TableType, KindOf, Optional, Modern, Seedreams, Veos
  <2>2. Tabled(m, ps[2])
    BY <1>2 DEF Tabled, Shape, TableType, KindOf, Optional, Modern, Seedreams, Veos
  <2>3. Tabled(m, ps[3])
    BY <1>2 DEF Tabled, Shape, TableType, KindOf, Optional, Modern, Seedreams, Veos
  <2> QED
    BY <1>1, <2>1, <2>2, <2>3
<1> QED
  BY <1>2, <1>3, <1>4 DEF DescriptorsOf


\* so have those of Veo,
LEMMA VeoTable ==
    ASSUME NEW m \in Veos, NEW ps, DOMAIN ps = 1 .. 5,
           Shape(ps[1], "enum", "durationSeconds", {}),
           Shape(ps[2], "enum", "aspectRatio", {}),
           Shape(ps[3], "enum", "resolution", {}),
           Shape(ps[4], "boolean", "audio", {}),
           Shape(ps[5], "integer", "count", {})
    PROVE  (\A d \in DescriptorsOf(ps) : Tabled(m, d)) /\ NamesOf(ps) = TableNames(m)
<1>1. \A i \in 1 .. 5 : i = 1 \/ i = 2 \/ i = 3 \/ i = 4 \/ i = 5
  OBVIOUS
<1>2. TableNames(m) = {"durationSeconds", "aspectRatio", "resolution", "audio", "count"}
  BY DEF TableNames, Modern, Seedreams, Veos
<1>3. NamesOf(ps) = {"durationSeconds", "aspectRatio", "resolution", "audio", "count"}
  BY DEF NamesOf, Shape
<1>4. ASSUME NEW i \in 1 .. 5
      PROVE  Tabled(m, ps[i])
  <2>1. Tabled(m, ps[1])
    BY <1>2 DEF Tabled, Shape, TableType, KindOf, Optional, Modern, Seedreams, Veos
  <2>2. Tabled(m, ps[2])
    BY <1>2 DEF Tabled, Shape, TableType, KindOf, Optional, Modern, Seedreams, Veos
  <2>3. Tabled(m, ps[3])
    BY <1>2 DEF Tabled, Shape, TableType, KindOf, Optional, Modern, Seedreams, Veos
  <2>4. Tabled(m, ps[4])
    BY <1>2 DEF Tabled, Shape, TableType, KindOf, Optional, Modern, Seedreams, Veos
  <2>5. Tabled(m, ps[5])
    BY <1>2 DEF Tabled, Shape, TableType, KindOf, Optional, Modern, Seedreams, Veos
  <2> QED
    BY <1>1, <2>1, <2>2, <2>3, <2>4, <2>5
<1> QED
  BY <1>2, <1>3, <1>4 DEF DescriptorsOf


\* and so has Seedance.
LEMMA SeedanceTable ==
    ASSUME NEW m \in {"seedance"}, NEW ps, DOMAIN ps = 1 .. 9,
           Shape(ps[1], "integer", "durationSeconds", {}),
           Shape(ps[2], "enum", "aspectRatio", {}),
           Shape(ps[3], "enum", "resolution", {}),
           Shape(ps[4], "boolean", "audio", {}),
           Shape(ps[5], "integer", "count", {}),
           Shape(ps[6], "integer", "seed", {}),
           Shape(ps[7], "boolean", "watermark", {}),
           Shape(ps[8], "boolean", "camera_fixed", {}),
           Shape(ps[9], "integer", "frames", {})
    PROVE  (\A d \in DescriptorsOf(ps) : Tabled(m, d)) /\ NamesOf(ps) = TableNames(m)
<1>1. \A i \in 1 .. 9 : i = 1 \/ i = 2 \/ i = 3 \/ i = 4 \/ i = 5 \/ i = 6 \/ i = 7 \/ i = 8 \/ i = 9
  OBVIOUS
<1>2. TableNames(m) = {"durationSeconds", "aspectRatio", "resolution", "audio", "count", "seed", "watermark", "camera_fixed", "frames"}
  BY DEF TableNames, Modern, Seedreams, Veos
<1>3. NamesOf(ps) = {"durationSeconds", "aspectRatio", "resolution", "audio", "count", "seed", "watermark", "camera_fixed", "frames"}
  BY DEF NamesOf, Shape
<1>4. ASSUME NEW i \in 1 .. 9
      PROVE  Tabled(m, ps[i])
  <2>1. Tabled(m, ps[1])
    BY <1>2 DEF Tabled, Shape, TableType, KindOf, Optional, Modern, Seedreams, Veos
  <2>2. Tabled(m, ps[2])
    BY <1>2 DEF Tabled, Shape, TableType, KindOf, Optional, Modern, Seedreams, Veos
  <2>3. Tabled(m, ps[3])
    BY <1>2 DEF Tabled, Shape, TableType, KindOf, Optional, Modern, Seedreams, Veos
  <2>4. Tabled(m, ps[4])
    BY <1>2 DEF Tabled, Shape, TableType, KindOf, Optional, Modern, Seedreams, Veos
  <2>5. Tabled(m, ps[5])
    BY <1>2 DEF Tabled, Shape, TableType, KindOf, Optional, Modern, Seedreams, Veos
  <2>6. Tabled(m, ps[6])
    BY <1>2 DEF Tabled, Shape, TableType, KindOf, Optional, Modern, Seedreams, Veos
  <2>7. Tabled(m, ps[7])
    BY <1>2 DEF Tabled, Shape, TableType, KindOf, Optional, Modern, Seedreams, Veos
  <2>8. Tabled(m, ps[8])
    BY <1>2 DEF Tabled, Shape, TableType, KindOf, Optional, Modern, Seedreams, Veos
  <2>9. Tabled(m, ps[9])
    BY <1>2 DEF Tabled, Shape, TableType, KindOf, Optional, Modern, Seedreams, Veos
  <2> QED
    BY <1>1, <2>1, <2>2, <2>3, <2>4, <2>5, <2>6, <2>7, <2>8, <2>9
<1> QED
  BY <1>2, <1>3, <1>4 DEF DescriptorsOf


\* The descriptor of a name, where the table says too little.
Told(m, d) ==
    /\ d.name = "count" => Between(d, 10, IF m = "dall-e-3" THEN 10 ELSE 40)
    /\ d.name = "output_format" => d.options = Words(<<"png", "jpeg", "webp">>)
    /\ m \in Seedreams /\ d.name = "size" => \A i \in DOMAIN d.presets : d.presets[i].value # AutoSize
    /\ m \in Veos /\ d.name = "durationSeconds" => d.options = Words(<<"4", "6", "8">>)
    /\ m = "seedance" /\ d.name = "durationSeconds" => Between(d, 10, 300)

\* The two switches by name.
LEMMA SwitchesShape ==
    Shape(Audio, "boolean", "audio", {}) /\ Shape(Watermark, "boolean", "watermark", {})
BY SwitchShape DEF Audio, Watermark

\* The size of an image of Seedream, with its presets.
LEMMA SeedreamSizeShape ==
    ASSUME NEW presets, NEW floor
    PROVE  Shape(SeedreamSize(presets, floor), "image-size", "size", {})
           /\ SeedreamSize(presets, floor).presets = presets
<1> DEFINE limits == {[NoConstraint EXCEPT !.maxPixels = {4096 * 4096}, !.maxAspectRatio = {16},
                                           !.minPixels = {floor}]}
           v == Size(2048, 2048)
           custom == TRUE
<1>1. v.kind = "string"
  BY SMT, Kinds
<1>2. SeedreamSize(presets, floor) = Defaulted(ImageSize("size", presets, custom, limits), v)
  BY SMT DEF SeedreamSize
<1> HIDE DEF limits, v, custom
<1> QED
  BY <1>1, <1>2, SizeShape

\* What the table says too little of, for each model: the recent ones of OpenAI,
LEMMA ModernParameters ==
    ASSUME NEW m \in Modern, NEW s \in Seq(Nat \X Nat), NEW ladder
    PROVE  LET ps == <<GptSize(<<AutoPreset>> \o Sizes(s), TRUE), Quality(ladder), Background, OutputFormat,
                       Compression, CountUpTo(4)>>
           IN /\ Len(ps) \in Nat /\ DOMAIN ps = 1 .. Len(ps)
              /\ (\A d \in DescriptorsOf(ps) : Tabled(m, d) /\ Told(m, d)) /\ NamesOf(ps) = TableNames(m)
<1> DEFINE ps == <<GptSize(<<AutoPreset>> \o Sizes(s), TRUE), Quality(ladder), Background, OutputFormat,
                   Compression, CountUpTo(4)>>
<1>1. Shape(ps[1], "image-size", "size", {})
  BY GptSizeShape, AutoFirst, Kinds
<1>2. Shape(ps[2], "enum", "quality", {})
  BY EnumShape DEF Quality
<1>3. Shape(ps[3], "enum", "background", {})
  BY EnumShape DEF Background, AutoSize
<1>4. Shape(ps[4], "enum", "output_format", {}) /\ ps[4].options = Words(<<"png", "jpeg", "webp">>)
  BY EnumShape DEF OutputFormat
<1>5. Shape(ps[5], "integer", "output_compression", On("output_format", {Word("jpeg"), Word("webp")}))
  BY CompressionShape
<1>6. Shape(ps[6], "integer", "count", {}) /\ Between(ps[6], 10, 40)
  BY CountShape
<1>7. DOMAIN ps = 1 .. 6 /\ Len(ps) = 6
  OBVIOUS
<1> HIDE DEF ps
<1>8. (\A d \in DescriptorsOf(ps) : Tabled(m, d)) /\ NamesOf(ps) = TableNames(m)
  BY <1>1, <1>2, <1>3, <1>4, <1>5, <1>6, <1>7, ModernTable
<1>9. \A d \in DescriptorsOf(ps) : Told(m, d)
  <2>1. Told(m, ps[1])
    BY <1>1 DEF Told, Shape, Modern, Seedreams, Veos
  <2>2. Told(m, ps[2])
    BY <1>2 DEF Told, Shape, Modern, Seedreams, Veos
  <2>3. Told(m, ps[3])
    BY <1>3 DEF Told, Shape, Modern, Seedreams, Veos
  <2>4. Told(m, ps[4])
    BY <1>4 DEF Told, Shape, Modern, Seedreams, Veos
  <2>5. Told(m, ps[5])
    BY <1>5 DEF Told, Shape, Modern, Seedreams, Veos
  <2>6. Told(m, ps[6])
    BY <1>6 DEF Told, Shape, Modern, Seedreams, Veos
  <2>7. \A i \in 1 .. 6 : i = 1 \/ i = 2 \/ i = 3 \/ i = 4 \/ i = 5 \/ i = 6
    OBVIOUS
  <2> QED
    BY <1>7, <2>1, <2>2, <2>3, <2>4, <2>5, <2>6, <2>7 DEF DescriptorsOf
<1> QED
  BY <1>7, <1>8, <1>9 DEF ps


\* the one with an input fidelity,
LEMMA FidelityParameters ==
    ASSUME NEW m \in {"gpt-image-1.5"}, NEW s \in Seq(Nat \X Nat)
    PROVE  LET ps == <<GptSize(<<AutoPreset>> \o Sizes(s), FALSE), Quality(GptLadder), Fidelity,
                       CountUpTo(4)>>
           IN /\ Len(ps) \in Nat /\ DOMAIN ps = 1 .. Len(ps)
              /\ (\A d \in DescriptorsOf(ps) : Tabled(m, d) /\ Told(m, d)) /\ NamesOf(ps) = TableNames(m)
<1> DEFINE ps == <<GptSize(<<AutoPreset>> \o Sizes(s), FALSE), Quality(GptLadder), Fidelity, CountUpTo(4)>>
<1>1. Shape(ps[1], "image-size", "size", {})
  BY GptSizeShape, AutoFirst, Kinds
<1>2. Shape(ps[2], "enum", "quality", {})
  BY EnumShape DEF Quality
<1>3. Shape(ps[3], "enum", "input_fidelity", {})
  BY EnumShape DEF Fidelity
<1>4. Shape(ps[4], "integer", "count", {}) /\ Between(ps[4], 10, 40)
  BY CountShape
<1>5. DOMAIN ps = 1 .. 4 /\ Len(ps) = 4
  OBVIOUS
<1> HIDE DEF ps
<1>6. (\A d \in DescriptorsOf(ps) : Tabled(m, d)) /\ NamesOf(ps) = TableNames(m)
  BY <1>1, <1>2, <1>3, <1>4, <1>5, FidelityTable
<1>7. \A d \in DescriptorsOf(ps) : Told(m, d)
  <2>1. Told(m, ps[1])
    BY <1>1 DEF Told, Shape, Modern, Seedreams, Veos
  <2>2. Told(m, ps[2])
    BY <1>2 DEF Told, Shape, Modern, Seedreams, Veos
  <2>3. Told(m, ps[3])
    BY <1>3 DEF Told, Shape, Modern, Seedreams, Veos
  <2>4. Told(m, ps[4])
    BY <1>4 DEF Told, Shape, Modern, Seedreams, Veos
  <2>5. \A i \in 1 .. 4 : i = 1 \/ i = 2 \/ i = 3 \/ i = 4
    OBVIOUS
  <2> QED
    BY <1>5, <2>1, <2>2, <2>3, <2>4, <2>5 DEF DescriptorsOf
<1> QED
  BY <1>5, <1>6, <1>7 DEF ps


\* DALL-E,
LEMMA DallEParameters ==
    ASSUME NEW m \in {"dall-e-3"}, NEW s \in Seq(Nat \X Nat), Len(s) > 0, NEW words
    PROVE  LET ps == <<GptSize(Sizes(s), FALSE), Quality(words), CountUpTo(1)>>
           IN /\ Len(ps) \in Nat /\ DOMAIN ps = 1 .. Len(ps)
              /\ (\A d \in DescriptorsOf(ps) : Tabled(m, d) /\ Told(m, d)) /\ NamesOf(ps) = TableNames(m)
<1> DEFINE ps == <<GptSize(Sizes(s), FALSE), Quality(words), CountUpTo(1)>>
<1>1. Shape(ps[1], "image-size", "size", {})
  <2>1. Sizes(s)[1].value.kind = "string"
    BY SizesAre
  <2> QED
    BY <2>1, GptSizeShape
<1>2. Shape(ps[2], "enum", "quality", {})
  BY EnumShape DEF Quality
<1>3. Shape(ps[3], "integer", "count", {}) /\ Between(ps[3], 10, 10)
  BY CountShape
<1>4. DOMAIN ps = 1 .. 3 /\ Len(ps) = 3
  OBVIOUS
<1> HIDE DEF ps
<1>5. (\A d \in DescriptorsOf(ps) : Tabled(m, d)) /\ NamesOf(ps) = TableNames(m)
  BY <1>1, <1>2, <1>3, <1>4, DallETable
<1>6. \A d \in DescriptorsOf(ps) : Told(m, d)
  <2>1. Told(m, ps[1])
    BY <1>1 DEF Told, Shape, Modern, Seedreams, Veos
  <2>2. Told(m, ps[2])
    BY <1>2 DEF Told, Shape, Modern, Seedreams, Veos
  <2>3. Told(m, ps[3])
    BY <1>3 DEF Told, Shape, Modern, Seedreams, Veos
  <2>4. \A i \in 1 .. 3 : i = 1 \/ i = 2 \/ i = 3
    OBVIOUS
  <2> QED
    BY <1>4, <2>1, <2>2, <2>3, <2>4 DEF DescriptorsOf
<1> QED
  BY <1>4, <1>5, <1>6 DEF ps


\* Seedream,
LEMMA SeedreamParameters ==
    ASSUME NEW m \in Seedreams, NEW s \in Seq(Nat \X Nat), NEW floor
    PROVE  LET ps == <<SeedreamSize(Sizes(s), floor), CountUpTo(4), Watermark>>
           IN /\ Len(ps) \in Nat /\ DOMAIN ps = 1 .. Len(ps)
              /\ (\A d \in DescriptorsOf(ps) : Tabled(m, d) /\ Told(m, d)) /\ NamesOf(ps) = TableNames(m)
<1> DEFINE ps == <<SeedreamSize(Sizes(s), floor), CountUpTo(4), Watermark>>
<1>1. Shape(ps[1], "image-size", "size", {}) /\ ps[1].presets = Sizes(s)
  BY SeedreamSizeShape
<1>2. Shape(ps[2], "integer", "count", {}) /\ Between(ps[2], 10, 40)
  BY CountShape
<1>3. Shape(ps[3], "boolean", "watermark", {})
  BY SwitchesShape
<1>4. DOMAIN ps = 1 .. 3 /\ Len(ps) = 3
  OBVIOUS
<1> HIDE DEF ps
<1>5. (\A d \in DescriptorsOf(ps) : Tabled(m, d)) /\ NamesOf(ps) = TableNames(m)
  BY <1>1, <1>2, <1>3, <1>4, SeedreamTable
<1>6. \A d \in DescriptorsOf(ps) : Told(m, d)
  <2>1. Told(m, ps[1])
    BY <1>1, SizesAre DEF Told, Shape, Modern, Seedreams, Veos
  <2>2. Told(m, ps[2])
    BY <1>2 DEF Told, Shape, Modern, Seedreams, Veos
  <2>3. Told(m, ps[3])
    BY <1>3 DEF Told, Shape, Modern, Seedreams, Veos
  <2>4. \A i \in 1 .. 3 : i = 1 \/ i = 2 \/ i = 3
    OBVIOUS
  <2> QED
    BY <1>4, <2>1, <2>2, <2>3, <2>4 DEF DescriptorsOf
<1> QED
  BY <1>4, <1>5, <1>6 DEF ps


\* Veo,
LEMMA VeoParameters ==
    ASSUME NEW m \in Veos, NEW resolutions, NEW first
    PROVE  LET ps == <<Defaulted(Enum("durationSeconds", Words(<<"4", "6", "8">>)), Word("8")),
                       Defaulted(Enum("aspectRatio", Words(<<"16:9", "9:16">>)), Word("16:9")),
                       Defaulted(Enum("resolution", Words(resolutions)), Word(first)), Audio, CountUpTo(4)>>
           IN /\ Len(ps) \in Nat /\ DOMAIN ps = 1 .. Len(ps)
              /\ (\A d \in DescriptorsOf(ps) : Tabled(m, d) /\ Told(m, d)) /\ NamesOf(ps) = TableNames(m)
<1> DEFINE ps == <<Defaulted(Enum("durationSeconds", Words(<<"4", "6", "8">>)), Word("8")),
                   Defaulted(Enum("aspectRatio", Words(<<"16:9", "9:16">>)), Word("16:9")),
                   Defaulted(Enum("resolution", Words(resolutions)), Word(first)), Audio, CountUpTo(4)>>
<1>1. Shape(ps[1], "enum", "durationSeconds", {}) /\ ps[1].options = Words(<<"4", "6", "8">>)
  BY EnumShape
<1>2. Shape(ps[2], "enum", "aspectRatio", {})
  BY EnumShape
<1>3. Shape(ps[3], "enum", "resolution", {})
  BY EnumShape
<1>4. Shape(ps[4], "boolean", "audio", {})
  BY SwitchesShape
<1>5. Shape(ps[5], "integer", "count", {}) /\ Between(ps[5], 10, 40)
  BY CountShape
<1>6. DOMAIN ps = 1 .. 5 /\ Len(ps) = 5
  OBVIOUS
<1> HIDE DEF ps
<1>7. (\A d \in DescriptorsOf(ps) : Tabled(m, d)) /\ NamesOf(ps) = TableNames(m)
  BY <1>1, <1>2, <1>3, <1>4, <1>5, <1>6, VeoTable
<1>8. \A d \in DescriptorsOf(ps) : Told(m, d)
  <2>1. Told(m, ps[1])
    BY <1>1 DEF Told, Shape, Modern, Seedreams, Veos
  <2>2. Told(m, ps[2])
    BY <1>2 DEF Told, Shape, Modern, Seedreams, Veos
  <2>3. Told(m, ps[3])
    BY <1>3 DEF Told, Shape, Modern, Seedreams, Veos
  <2>4. Told(m, ps[4])
    BY <1>4 DEF Told, Shape, Modern, Seedreams, Veos
  <2>5. Told(m, ps[5])
    BY <1>5 DEF Told, Shape, Modern, Seedreams, Veos
  <2>6. \A i \in 1 .. 5 : i = 1 \/ i = 2 \/ i = 3 \/ i = 4 \/ i = 5
    OBVIOUS
  <2> QED
    BY <1>6, <2>1, <2>2, <2>3, <2>4, <2>5, <2>6 DEF DescriptorsOf
<1> QED
  BY <1>6, <1>7, <1>8 DEF ps


\* and Seedance.
LEMMA SeedanceParameters ==
    ASSUME NEW m \in {"seedance"}
    PROVE  LET ps == <<Defaulted(Integer("durationSeconds", 10, 300, {}), Number(50)),
                       Defaulted(Enum("aspectRatio", Words(<<"16:9", "9:16", "1:1", "4:3", "3:4", "21:9">>)), Word("16:9")),
                       Defaulted(Enum("resolution", Words(<<"720p", "1080p">>)), Word("720p")), Audio,
                       CountUpTo(4), Integer("seed", 0, 10 * SeedMax, {}), Watermark, Switch("camera_fixed"),
                       Integer("frames", 10, 100000, {})>>
           IN /\ Len(ps) \in Nat /\ DOMAIN ps = 1 .. Len(ps)
              /\ (\A d \in DescriptorsOf(ps) : Tabled(m, d) /\ Told(m, d)) /\ NamesOf(ps) = TableNames(m)
<1> DEFINE ps == <<Defaulted(Integer("durationSeconds", 10, 300, {}), Number(50)),
                   Defaulted(Enum("aspectRatio", Words(<<"16:9", "9:16", "1:1", "4:3", "3:4", "21:9">>)), Word("16:9")),
                   Defaulted(Enum("resolution", Words(<<"720p", "1080p">>)), Word("720p")), Audio,
                   CountUpTo(4), Integer("seed", 0, 10 * SeedMax, {}), Watermark, Switch("camera_fixed"),
                   Integer("frames", 10, 100000, {})>>
<1>1. Shape(ps[1], "integer", "durationSeconds", {}) /\ Between(ps[1], 10, 300)
  BY SMT, IntegerShape
<1>2. Shape(ps[2], "enum", "aspectRatio", {})
  BY SMT, EnumShape
<1>3. Shape(ps[3], "enum", "resolution", {})
  BY SMT, EnumShape
<1>4. Shape(ps[4], "boolean", "audio", {})
  BY SMT, SwitchesShape
<1>5. Shape(ps[5], "integer", "count", {}) /\ Between(ps[5], 10, 40)
  BY SMT, CountShape
<1>6. Shape(ps[6], "integer", "seed", {})
  BY SMT, IntegerShape DEF Optional
<1>7. Shape(ps[7], "boolean", "watermark", {})
  BY SMT, SwitchesShape
<1>8. Shape(ps[8], "boolean", "camera_fixed", {})
  BY SMT, SwitchShape DEF Optional
<1>9. Shape(ps[9], "integer", "frames", {})
  BY SMT, IntegerShape DEF Optional
<1>10. DOMAIN ps = 1 .. 9 /\ Len(ps) = 9
  BY SMT
<1> HIDE DEF ps
<1>11. (\A d \in DescriptorsOf(ps) : Tabled(m, d)) /\ NamesOf(ps) = TableNames(m)
  BY <1>1, <1>2, <1>3, <1>4, <1>5, <1>6, <1>7, <1>8, <1>9, <1>10, SeedanceTable
<1>12. \A d \in DescriptorsOf(ps) : Told(m, d)
  <2>1. Told(m, ps[1])
    BY <1>1 DEF Told, Shape, Modern, Seedreams, Veos
  <2>2. Told(m, ps[2])
    BY <1>2 DEF Told, Shape, Modern, Seedreams, Veos
  <2>3. Told(m, ps[3])
    BY <1>3 DEF Told, Shape, Modern, Seedreams, Veos
  <2>4. Told(m, ps[4])
    BY <1>4 DEF Told, Shape, Modern, Seedreams, Veos
  <2>5. Told(m, ps[5])
    BY <1>5 DEF Told, Shape, Modern, Seedreams, Veos
  <2>6. Told(m, ps[6])
    BY <1>6 DEF Told, Shape, Modern, Seedreams, Veos
  <2>7. Told(m, ps[7])
    BY <1>7 DEF Told, Shape, Modern, Seedreams, Veos
  <2>8. Told(m, ps[8])
    BY <1>8 DEF Told, Shape, Modern, Seedreams, Veos
  <2>9. Told(m, ps[9])
    BY <1>9 DEF Told, Shape, Modern, Seedreams, Veos
  <2>10. \A i \in 1 .. 9 : i = 1 \/ i = 2 \/ i = 3 \/ i = 4 \/ i = 5 \/ i = 6 \/ i = 7 \/ i = 8 \/ i = 9
    OBVIOUS
  <2> QED
    BY <1>10, <2>1, <2>2, <2>3, <2>4, <2>5, <2>6, <2>7, <2>8, <2>9, <2>10 DEF DescriptorsOf
<1> QED
  BY <1>10, <1>11, <1>12 DEF ps


TableSlots(m) ==
    IF m \in Modern THEN <<Slot("reference_image", FALSE, 4), Slot("mask", FALSE, 1)>>
    ELSE IF m = "gpt-image-1.5" THEN <<Slot("reference_image", FALSE, 1)>>
    ELSE IF m = "dall-e-3" THEN <<>>
    ELSE IF m \in Seedreams THEN <<Slot("reference_image", FALSE, 4)>>
    ELSE IF m \in Veos THEN Frames
    ELSE Append(Frames, Slot("mask", FALSE, 1))

TableRules(m) ==
    IF m \in Modern THEN {Forbidden("background", Word("transparent"), "output_format", {Word("jpeg")})}
    ELSE IF m \in Veos THEN {Forbidden("resolution", Word(r), "durationSeconds", {Word("4"), Word("6")})
                              : r \in {"1080p", "4k"}}
    ELSE {}

\* A declaration of the catalog is the row of its model.
Row(m) ==
    LET c == Catalog[m]
    IN /\ Entry(c, c.parameters, TableSlots(m), TableRules(m)) /\ (c.video <=> m \in Veos \cup {"seedance"})
       /\ Len(c.parameters) \in Nat /\ DOMAIN c.parameters = 1 .. Len(c.parameters)
       /\ \A d \in DescriptorsOf(c.parameters) : Tabled(m, d) /\ Told(m, d)
       /\ NamesOf(c.parameters) = TableNames(m)

\* The lists of sizes are sequences of pairs.
LEMMA SizeLists ==
    /\ GptSizes \in Seq(Nat \X Nat) /\ Seedream1k \in Seq(Nat \X Nat) /\ Seedream2k \in Seq(Nat \X Nat)
    /\ Seedream4k \in Seq(Nat \X Nat)
BY SMT DEF GptSizes, Seedream1k, Seedream2k, Seedream4k

\* What the table and the entries say, together, of the recent models of OpenAI,
LEMMA ModernRow ==
    ASSUME NEW m \in Modern
    PROVE  Row(m)
<1> DEFINE Rules == {Forbidden("background", Word("transparent"), "output_format", {Word("jpeg")})}
           Slots == <<Slot("reference_image", FALSE, 4), Slot("mask", FALSE, 1)>>
           Ps(s, ladder) == <<GptSize(<<AutoPreset>> \o Sizes(s), TRUE), Quality(ladder),
                              Background, OutputFormat, Compression, CountUpTo(4)>>
<1>1. ASSUME NEW s, NEW ladder
      PROVE  Entry(ModernGpt(s, ladder), Ps(s, ladder), Slots, Rules) /\ ~ModernGpt(s, ladder).video
  <2> DEFINE c == ImageModel(Ps(s, ladder), Slots, 4)
             f == [c.flags EXCEPT !.inpainting = {TRUE}]
  <2>1. Entry(c, Ps(s, ladder), Slots, {}) /\ ~c.video
    BY ImageEntry
  <2> DEFINE d == [c EXCEPT !.crossFieldConstraints = Rules]
  <2>2. ModernGpt(s, ladder) = [d EXCEPT !.flags = f]
    BY DEF ModernGpt
  <2> HIDE DEF c, f, Ps, Slots, Rules
  <2>3. Entry(d, Ps(s, ladder), Slots, Rules) /\ d.video = c.video
    BY <2>1, RulesAdded
  <2> HIDE DEF d
  <2> QED
    BY <2>1, <2>2, <2>3, FlagsKept
<1>2. PICK s, ladder : s \in Seq(Nat \X Nat) /\ Catalog[m] = ModernGpt(s, ladder)
  <2> DEFINE s1 == <<<<1024, 1024>>>> \o GptSizes
             s2 == <<<<1024, 1024>>, <<1280, 720>>, <<720, 1280>>>> \o GptSizes
             l1 == GptLadder \o <<"xhigh", "max">>
  <2>1. Catalog["gpt-image-2.5"] = ModernGpt(s1, l1)
    BY SMT DEF Catalog
  <2>2. Catalog["gpt-image-2"] = ModernGpt(s2, GptLadder)
    BY SMT DEF Catalog
  <2>3. s1 \in Seq(Nat \X Nat) /\ s2 \in Seq(Nat \X Nat)
    BY SMT, SizeLists
  <2> HIDE DEF s1, s2, l1
  <2> QED
    BY <2>1, <2>2, <2>3 DEF Modern
<1>3. /\ Len(Ps(s, ladder)) \in Nat /\ DOMAIN Ps(s, ladder) = 1 .. Len(Ps(s, ladder))
      /\ (\A d \in DescriptorsOf(Ps(s, ladder)) : Tabled(m, d) /\ Told(m, d))
      /\ NamesOf(Ps(s, ladder)) = TableNames(m)
  BY <1>2, ModernParameters
<1>4. TableSlots(m) = Slots /\ TableRules(m) = Rules /\ m \notin Veos \cup {"seedance"}
  BY DEF TableSlots, TableRules, Modern, Veos
<1> HIDE DEF Ps, Slots, Rules
<1>5. Entry(Catalog[m], Ps(s, ladder), Slots, Rules) /\ Catalog[m].parameters = Ps(s, ladder) /\ ~Catalog[m].video
  BY <1>1, <1>2 DEF Entry
<1> QED
  BY <1>3, <1>4, <1>5 DEF Row

\* of the one with an input fidelity,
LEMMA FidelityRow == Row("gpt-image-1.5")
<1> DEFINE m == "gpt-image-1.5"
           Slots == <<Slot("reference_image", FALSE, 1)>>
           s == <<<<1024, 1024>>, <<1024, 1536>>, <<1536, 1024>>>>
           ps == <<GptSize(<<AutoPreset>> \o Sizes(s), FALSE), Quality(GptLadder), Fidelity, CountUpTo(4)>>
<1>1. Catalog[m] = ImageModel(ps, Slots, 4)
  BY SMT DEF Catalog
<1>2. s \in Seq(Nat \X Nat)
  BY SMT
<1> HIDE DEF s
<1>3. /\ Len(ps) \in Nat /\ DOMAIN ps = 1 .. Len(ps)
      /\ (\A d \in DescriptorsOf(ps) : Tabled(m, d) /\ Told(m, d)) /\ NamesOf(ps) = TableNames(m)
  BY <1>2, FidelityParameters
<1>4. TableSlots(m) = Slots /\ TableRules(m) = {} /\ m \notin Veos \cup {"seedance"}
  BY DEF TableSlots, TableRules, Modern, Veos
<1> HIDE DEF ps, Slots, m
<1>5. Entry(Catalog[m], ps, Slots, {}) /\ ~Catalog[m].video /\ Catalog[m].parameters = ps
  BY <1>1, ImageEntry DEF Entry
<1> QED
  BY <1>3, <1>4, <1>5 DEF Row, m

\* of DALL-E,
LEMMA DallERow == Row("dall-e-3")
<1> DEFINE m == "dall-e-3"
           s == <<<<1024, 1024>>, <<1792, 1024>>, <<1024, 1792>>>>
           ps == <<GptSize(Sizes(s), FALSE), Quality(<<"standard", "hd">>), CountUpTo(1)>>
<1>1. Catalog[m] = ImageModel(ps, <<>>, 1)
  BY SMT DEF Catalog
<1>2. s \in Seq(Nat \X Nat) /\ Len(s) > 0
  BY SMT
<1> HIDE DEF s
<1>3. /\ Len(ps) \in Nat /\ DOMAIN ps = 1 .. Len(ps)
      /\ (\A d \in DescriptorsOf(ps) : Tabled(m, d) /\ Told(m, d)) /\ NamesOf(ps) = TableNames(m)
  BY <1>2, DallEParameters
<1>4. TableSlots(m) = <<>> /\ TableRules(m) = {} /\ m \notin Veos \cup {"seedance"}
  BY DEF TableSlots, TableRules, Modern, Veos
<1> HIDE DEF ps, m
<1>5. Entry(Catalog[m], ps, <<>>, {}) /\ ~Catalog[m].video /\ Catalog[m].parameters = ps
  BY <1>1, ImageEntry DEF Entry
<1> QED
  BY <1>3, <1>4, <1>5 DEF Row, m

\* of Seedream,
LEMMA SeedreamRow ==
    ASSUME NEW m \in Seedreams
    PROVE  Row(m)
<1> DEFINE Slots == <<Slot("reference_image", FALSE, 4)>>
           Ps(s, floor) == <<SeedreamSize(Sizes(s), floor), CountUpTo(4), Watermark>>
<1>2. PICK s, floor : s \in Seq(Nat \X Nat) /\ Catalog[m] = Seedream(s, floor)
  <2> DEFINE s1 == Seedream1k \o Seedream2k \o Seedream4k
             s2 == Seedream2k \o Seedream4k
             f1 == 1280 * 720
             f2 == 2560 * 1440
  <2>1. Catalog["seedream-4.0"] = Seedream(s1, f1)
    BY SMT DEF Catalog
  <2>2. Catalog["seedream-4.5"] = Seedream(s2, f2)
    BY SMT DEF Catalog
  <2>3. s1 \in Seq(Nat \X Nat) /\ s2 \in Seq(Nat \X Nat)
    BY SMT, SizeLists
  <2> HIDE DEF s1, s2, f1, f2
  <2> QED
    BY <2>1, <2>2, <2>3 DEF Seedreams
<1>1. Catalog[m] = ImageModel(Ps(s, floor), Slots, 4)
  BY <1>2 DEF Seedream
<1>3. /\ Len(Ps(s, floor)) \in Nat /\ DOMAIN Ps(s, floor) = 1 .. Len(Ps(s, floor))
      /\ (\A d \in DescriptorsOf(Ps(s, floor)) : Tabled(m, d) /\ Told(m, d))
      /\ NamesOf(Ps(s, floor)) = TableNames(m)
  BY <1>2, SeedreamParameters
<1>4. TableSlots(m) = Slots /\ TableRules(m) = {} /\ m \notin Veos \cup {"seedance"}
  BY DEF TableSlots, TableRules, Modern, Veos, Seedreams
<1> HIDE DEF Ps, Slots
<1>5. /\ Entry(Catalog[m], Ps(s, floor), Slots, {}) /\ ~Catalog[m].video
      /\ Catalog[m].parameters = Ps(s, floor)
  BY <1>1, ImageEntry DEF Entry
<1> QED
  BY <1>3, <1>4, <1>5 DEF Row

\* of Veo,
LEMMA VeoRow ==
    ASSUME NEW m \in Veos
    PROVE  Row(m)
<1> DEFINE Rules == {Forbidden("resolution", Word(r), "durationSeconds", {Word("4"), Word("6")})
                      : r \in {"1080p", "4k"}}
           Ps(resolutions, first) ==
               <<Defaulted(Enum("durationSeconds", Words(<<"4", "6", "8">>)), Word("8")),
                 Defaulted(Enum("aspectRatio", Words(<<"16:9", "9:16">>)), Word("16:9")),
                 Defaulted(Enum("resolution", Words(resolutions)), Word(first)), Audio, CountUpTo(4)>>
<1>1. ASSUME NEW r, NEW w
      PROVE  Entry(Veo(r, w), Ps(r, w), Frames, Rules) /\ Veo(r, w).video
  <2> DEFINE c == VideoModel(Ps(r, w), Frames)
  <2>1. Entry(c, Ps(r, w), Frames, {}) /\ c.video
    BY VideoEntry
  <2>2. Veo(r, w) = [c EXCEPT !.crossFieldConstraints = Rules]
    BY DEF Veo
  <2> HIDE DEF c, Ps, Rules
  <2> QED
    BY <2>1, <2>2, RulesAdded
<1>2. PICK r, w : Catalog[m] = Veo(r, w)
  <2> DEFINE r1 == <<"720p", "1080p", "4k">>
             r2 == <<"720p">>
  <2>1. Catalog["veo"] = Veo(r1, "1080p") /\ Catalog["veo-fast"] = Veo(r2, "720p")
    BY SMT DEF Catalog
  <2> HIDE DEF r1, r2
  <2> QED
    BY <2>1 DEF Veos
<1>3. /\ Len(Ps(r, w)) \in Nat /\ DOMAIN Ps(r, w) = 1 .. Len(Ps(r, w))
      /\ (\A d \in DescriptorsOf(Ps(r, w)) : Tabled(m, d) /\ Told(m, d))
      /\ NamesOf(Ps(r, w)) = TableNames(m)
  BY VeoParameters
<1>4. TableSlots(m) = Frames /\ TableRules(m) = Rules
  BY DEF TableSlots, TableRules, Modern, Veos, Seedreams
<1> HIDE DEF Ps, Rules
<1>5. /\ Entry(Catalog[m], Ps(r, w), Frames, Rules) /\ Catalog[m].video
      /\ Catalog[m].parameters = Ps(r, w)
  BY <1>1, <1>2 DEF Entry
<1> QED
  BY <1>3, <1>4, <1>5 DEF Row

\* and of Seedance.
LEMMA SeedanceRow == Row("seedance")
<1> DEFINE m == "seedance"
           Slots == Append(Frames, Slot("mask", FALSE, 1))
           ps == <<Defaulted(Integer("durationSeconds", 10, 300, {}), Number(50)),
                   Defaulted(Enum("aspectRatio", Words(<<"16:9", "9:16", "1:1", "4:3", "3:4", "21:9">>)), Word("16:9")),
                   Defaulted(Enum("resolution", Words(<<"720p", "1080p">>)), Word("720p")),
                   Audio, CountUpTo(4), Integer("seed", 0, 10 * SeedMax, {}), Watermark, Switch("camera_fixed"),
                   Integer("frames", 10, 100000, {})>>
<1>1. Catalog[m] = Seedance
  BY SMT DEF Catalog
<1>2. Seedance = VideoModel(ps, Slots)
  BY SMT DEF Seedance
<1>3. /\ Len(ps) \in Nat /\ DOMAIN ps = 1 .. Len(ps)
      /\ (\A d \in DescriptorsOf(ps) : Tabled(m, d) /\ Told(m, d)) /\ NamesOf(ps) = TableNames(m)
  BY SMT, SeedanceParameters
<1>4. TableSlots(m) = Slots /\ TableRules(m) = {}
  BY DEF TableSlots, TableRules, Modern, Veos, Seedreams
<1>5. m \in Veos \cup {"seedance"}
  BY SMT
<1> HIDE DEF ps, Slots, m
<1>6. Entry(Catalog[m], ps, Slots, {}) /\ Catalog[m].video /\ Catalog[m].parameters = ps
  BY <1>1, <1>2, VideoEntry DEF Entry
<1> QED
  BY <1>3, <1>4, <1>5, <1>6 DEF Row, m


\* So of every model of the catalog.
LEMMA EveryRow ==
    ASSUME NEW m \in DOMAIN Catalog
    PROVE  Row(m)
<1>1. DOMAIN Catalog = Modern \cup {"gpt-image-1.5", "dall-e-3"} \cup Seedreams \cup Veos \cup {"seedance"}
  BY SMT DEF Catalog, Modern, Seedreams, Veos
<1> QED
  BY <1>1, ModernRow, FidelityRow, DallERow, SeedreamRow, VeoRow, SeedanceRow

\* What a reader of the catalog works with.
LEMMA PublishedRow ==
    ASSUME NEW m \in DOMAIN Catalog
    PROVE  /\ Sound(Published[m]) /\ Published[m].parameters = Catalog[m].parameters
           /\ Published[m].inputSlots = TableSlots(m) /\ Published[m].crossFieldConstraints = TableRules(m)
           /\ Published[m].defaults = <<>> /\ Published[m].declared
           /\ (Published[m].video <=> m \in Veos \cup {"seedance"})
<1> DEFINE d == Catalog[m]
<1>1. Row(m) /\ DeclarationFindings(d) = {}
  BY EveryRow, BundledDeclarationsValid
<1>2. Published[m] = CapabilitiesFromRow(d)
  BY DEF Published
<1>3. DOMAIN d = DOMAIN Undeclared /\ d = [f \in DOMAIN d |-> d[f]] /\ Len(d.parameters) \in Nat
      /\ DOMAIN d.parameters = 1 .. Len(d.parameters)
  BY <1>1 DEF Row, Entry
<1> QED
  BY <1>1, <1>2, <1>3, DeclarationSound DEF Row, Entry

\* The descriptor of a name.
DescriptorIn(m, n) == Descriptor(Catalog[m].parameters, n)

\* A name of the table is declared, once, as the table says.
LEMMA DeclaredRow ==
    ASSUME NEW m \in DOMAIN Catalog, NEW n \in TableNames(m)
    PROVE  /\ DescriptorIn(m, n) \in DescriptorsOf(Catalog[m].parameters) /\ DescriptorIn(m, n).name = n
           /\ Tabled(m, DescriptorIn(m, n)) /\ Told(m, DescriptorIn(m, n))
<1>1. n \in NamesOf(Catalog[m].parameters)
  BY EveryRow DEF Row
<1> QED
  BY <1>1, EveryRow, NameNames DEF Row, DescriptorIn

\* What is declared has a name of the table.
LEMMA NamesDeclared ==
    ASSUME NEW m \in DOMAIN Catalog, NEW d \in DescriptorsOf(Catalog[m].parameters)
    PROVE  d.name \in TableNames(m) /\ d = DescriptorIn(m, d.name)
BY EveryRow, PublishedRow, Named DEF Row, DescriptorIn, Sound

\* What the API stores of a request for a bundled model.
Kept(m, P) ==
    /\ P = [n \in DOMAIN P |-> P[n]]
    /\ DOMAIN P \subseteq TableNames(m)
    /\ TableNames(m) \ (Optional \cup {"output_compression"}) \subseteq DOMAIN P
    /\ \A n \in DOMAIN P : Legal(DescriptorIn(m, n), P[n]) /\ Proper(P[n])
    /\ EvaluateCrossFieldConstraints(TableRules(m), P) = {}
    /\ "output_compression" \in DOMAIN P => IsParameterVisible(DescriptorIn(m, "output_compression"), P)

\* A legal value is of the kind of its type; one of a list is on the list.
LEMMA LegalKind ==
    ASSUME NEW d, NEW v, Legal(d, v), d.type \in {"enum", "integer", "boolean", "image-size"}
    PROVE  /\ v.kind = KindOf(d.type)
           /\ d.type = "enum" => v \in OptionValues(d)
           /\ d.type = "integer" => Whole(v)
BY DEF Legal, ValueIssues, WrongType, KindOf, IsNumber

\* A legal number is a whole one between the bounds.
LEMMA LegalBetween ==
    ASSUME NEW d, NEW v, Legal(d, v), Proper(v), d.type = "integer", NEW low \in Int, NEW high \in Int,
           Between(d, low, high)
    PROVE  v = Number(v.tenths) /\ v.tenths \in low .. high /\ v.tenths % 10 = 0
<1>1. v.kind = "number" /\ Whole(v)
  BY LegalKind DEF KindOf
<1>2. v.tenths \in Int /\ v = Number(v.tenths)
  BY <1>1 DEF Proper, IsNumber
<1>3. RangeIssues(d, v) = {}
  BY DEF Legal, ValueIssues
<1>4. ~ (\E x \in d.min : v.tenths < x) /\ ~ (\E x \in d.max : v.tenths > x)
  BY <1>3 DEF RangeIssues
<1> QED
  BY <1>1, <1>2, <1>4 DEF Between, Whole

\* What the API lets through is stored as the adapters know it.
LEMMA StoredKept ==
    ASSUME NEW m \in DOMAIN Catalog, NEW raw, NEW roles,
           ValidateGenerationRequest(Published[m], raw, roles) = {},
           \A n \in DOMAIN raw : n = "size" \/ Proper(raw[n])
    PROVE  Kept(m, NormalizedParameters(Published[m], raw)) /\ InputRefusals(Published[m], roles) = {}
<1> DEFINE c == Published[m]
           P == NormalizedParameters(c, raw)
<1>1. /\ Sound(c) /\ c.parameters = Catalog[m].parameters
      /\ c.crossFieldConstraints = TableRules(m) /\ c.defaults = <<>> /\ c.declared
  BY PublishedRow
<1>2. /\ ValueRefusals(c, raw) = {} /\ InputRefusals(c, roles) = {}
      /\ EvaluateCrossFieldConstraints(c.crossFieldConstraints, P) = {}
  BY <1>1 DEF ValidateGenerationRequest
<1>3. Stored(c, P)
  BY <1>1, <1>2, CheckedIsStored
<1>4. \A d : ApiDefault(c, d) = d.default
  BY <1>1 DEF ApiDefault
<1>5. ASSUME NEW n \in DOMAIN P
      PROVE  n \in TableNames(m) /\ Legal(DescriptorIn(m, n), P[n]) /\ Proper(P[n])
  <2> DEFINE d == DescriptorIn(m, n)
  <2>1. n \in NamesOf(c.parameters) /\ Descriptor(c.parameters, n) = d
    BY <1>1, <1>5, NormalizedValue DEF DescriptorIn
  <2>2. n \in TableNames(m) /\ Tabled(m, d) /\ d.name = n
    BY <1>1, <2>1, EveryRow, DeclaredRow DEF Row
  <2>3. d.type \in {"enum", "integer", "boolean", "image-size"}
    BY <2>2 DEF Tabled, TableType
  <2>4. /\ n \in DOMAIN raw => P[n] = raw[n] /\ Legal(d, P[n])
        /\ n \notin DOMAIN raw => P[n] \in d.default
    BY <1>1, <1>4, <1>5, <2>1, NormalizedValue
  <2>5. CASE n \in DOMAIN raw
    <3>1. n = "size" => P[n].kind # "number"
      BY <2>2, <2>3, <2>4, <2>5, LegalKind DEF Tabled, TableType, KindOf
    <3> QED
      BY <2>2, <2>4, <2>5, <3>1, Kinds
  <2>6. CASE n \notin DOMAIN raw
    <3>1. P[n] \in d.default /\ P[n].kind = KindOf(d.type) /\ Proper(P[n])
      BY <2>2, <2>4, <2>6 DEF Tabled
    <3>2. d.type # "boolean" => Legal(d, P[n])
      <4>1. d \in DescriptorsOf(c.parameters)
        BY <1>1, <2>2, DeclaredRow
      <4>2. \/ Legal(d, P[n]) \/ d.type \in {"text", "boolean"}
            \/ P[n].kind # (IF d.type \in {"integer", "number"} THEN "number" ELSE "string")
        BY <1>1, <3>1, <4>1 DEF Sound, SoundParameters
      <4> QED
        BY <2>3, <3>1, <4>2 DEF KindOf
    <3>3. d.type = "boolean" => Legal(d, P[n])
      BY <3>1 DEF Legal, ValueIssues, WrongType, KindOf
    <3> QED
      BY <2>2, <3>1, <3>2, <3>3
  <2> QED
    BY <2>5, <2>6
<1>6. ASSUME NEW n \in TableNames(m) \ (Optional \cup {"output_compression"})
      PROVE  n \in DOMAIN P
  <2> DEFINE d == DescriptorIn(m, n)
             value(e) == IF e.name \in DOMAIN raw
                         THEN IF Legal(e, raw[e.name]) THEN {raw[e.name]} ELSE {}
                         ELSE ApiDefault(c, e)
  <2>1. d \in DescriptorsOf(c.parameters) /\ d.name = n /\ Tabled(m, d)
    BY <1>1, DeclaredRow
  <2>2. d.dependsOn = {} /\ d.default # {}
    BY <2>1 DEF Tabled
  <2>3. IsParameterVisible(d, raw)
    BY <2>2 DEF IsParameterVisible
  <2>4. value(d) # {}
    BY <1>2, <1>4, <2>1, <2>2, <2>3, GivenLegal
  <2> QED
    BY <2>1, <2>3, <2>4 DEF NormalizedParameters
<1>7. ASSUME "output_compression" \in DOMAIN P
      PROVE  IsParameterVisible(DescriptorIn(m, "output_compression"), P)
  <2> DEFINE d == DescriptorIn(m, "output_compression")
  <2>1. "output_compression" \in TableNames(m)
    BY <1>5, <1>7
  <2>2. d.name = "output_compression" /\ Tabled(m, d) /\ Descriptor(c.parameters, "output_compression") = d
    BY <1>1, <2>1, DeclaredRow DEF DescriptorIn
  <2>3. d.dependsOn = On("output_format", {Word("jpeg"), Word("webp")})
    BY <2>2 DEF Tabled
  <2>4. \A dep \in d.dependsOn : dep.parameter = "output_format"
    BY <2>3 DEF On
  <2>5. "output_format" \in TableNames(m)
    BY <2>1 DEF TableNames
  <2>6. Descriptor(c.parameters, "output_format").dependsOn = {}
    BY <1>1, <2>5, DeclaredRow DEF Tabled, DescriptorIn
  <2>7. ~Chained(c, d)
    BY <2>4, <2>6 DEF Chained
  <2> QED
    BY <1>3, <1>7, <2>2, <2>7 DEF Stored
<1>8. P = [n \in DOMAIN P |-> P[n]]
  BY DEF NormalizedParameters
<1> HIDE DEF P, c
<1> QED
  BY <1>1, <1>2, <1>5, <1>6, <1>7, <1>8 DEF Kept, P, c


\* The member of a set of one.
LEMMA OnlyOne == \A x : TheOnly({x}) = x
BY DEF TheOnly

\* A string is spelt as itself,
LEMMA SaidAsItIs ==
    ASSUME NEW v, v.kind = "string"
    PROVE  StringOf(v) = v
BY Zenon DEF StringOf, IsNumber

\* so two strings that are spelt alike are one.
LEMMA SameString ==
    ASSUME NEW u, NEW v, u.kind = "string", v.kind = "string", SameText(u, v)
    PROVE  u = v
BY SaidAsItIs DEF SameText

\* The fields of a record of sets that are not empty.
LEMMA PresentFields ==
    ASSUME NEW values
    PROVE  /\ \A n : n \in DOMAIN Present(values) <=> n \in DOMAIN values /\ values[n] # {}
           /\ \A n \in DOMAIN values : \A v : values[n] = {v} => Present(values)[n] = v
BY OnlyOne DEF Present

-----------------------------------------------------------------------------
(* The images of a request. *)

TableRoles(m) ==
    IF m \in Modern THEN {"reference_image", "mask"}
    ELSE IF m \in {"gpt-image-1.5"} \cup Seedreams THEN {"reference_image"}
    ELSE IF m = "dall-e-3" THEN {}
    ELSE IF m \in Veos THEN {"first_frame", "last_frame", "reference_image"}
    ELSE {"first_frame", "last_frame", "reference_image", "mask"}

\* How many images of a role a model takes.
TableMost(m, role) == IF role # "reference_image" \/ m = "gpt-image-1.5" THEN 1 ELSE 4

\* The slots are those of the roles, and none has to be filled.
SlotsAre(slots, m) ==
    /\ \A i \in DOMAIN slots : /\ slots[i].role \in TableRoles(m) /\ ~slots[i].required
                              /\ slots[i].maxCount = TableMost(m, slots[i].role)
    /\ \A role \in TableRoles(m) : \E i \in DOMAIN slots : slots[i].role = role

\* The slots of a model are those of the table of roles.
LEMMA SlotTable ==
    ASSUME NEW m \in DOMAIN Catalog
    PROVE  SlotsAre(TableSlots(m), m)
<1>1. DOMAIN Catalog = Modern \cup {"gpt-image-1.5", "dall-e-3"} \cup Seedreams \cup Veos \cup {"seedance"}
  BY SMT DEF Catalog, Modern, Seedreams, Veos
<1> DEFINE r4 == Slot("reference_image", FALSE, 4)
           r1 == Slot("reference_image", FALSE, 1)
           mask == Slot("mask", FALSE, 1)
           first == Slot("first_frame", FALSE, 1)
           last == Slot("last_frame", FALSE, 1)
<1>2. /\ r4.role = "reference_image" /\ r4.maxCount = 4 /\ ~r4.required
      /\ r1.role = "reference_image" /\ r1.maxCount = 1 /\ ~r1.required
      /\ mask.role = "mask" /\ mask.maxCount = 1 /\ ~mask.required
      /\ first.role = "first_frame" /\ first.maxCount = 1 /\ ~first.required
      /\ last.role = "last_frame" /\ last.maxCount = 1 /\ ~last.required
  <2>1. r4.role = "reference_image" /\ r4.maxCount = 4 /\ ~r4.required
    BY Zenon DEF Slot
  <2>2. r1.role = "reference_image" /\ r1.maxCount = 1 /\ ~r1.required
    BY Zenon DEF Slot
  <2>3. mask.role = "mask" /\ mask.maxCount = 1 /\ ~mask.required
    BY Zenon DEF Slot
  <2>4. first.role = "first_frame" /\ first.maxCount = 1 /\ ~first.required
    BY Zenon DEF Slot
  <2>5. last.role = "last_frame" /\ last.maxCount = 1 /\ ~last.required
    BY Zenon DEF Slot
  <2> QED
    BY <2>1, <2>2, <2>3, <2>4, <2>5
<1>3. /\ m \in Modern => TableSlots(m) = <<r4, mask>>
      /\ m = "gpt-image-1.5" => TableSlots(m) = <<r1>>
      /\ m = "dall-e-3" => TableSlots(m) = <<>>
      /\ m \in Seedreams => TableSlots(m) = <<r4>>
      /\ m \in Veos => TableSlots(m) = Frames
      /\ m = "seedance" => TableSlots(m) = Append(Frames, mask)
  <2>1. m \in Modern => TableSlots(m) = <<r4, mask>>
    BY Zenon DEF TableSlots
  <2>2. m = "gpt-image-1.5" => TableSlots(m) = <<r1>>
    BY Zenon DEF TableSlots, Modern
  <2>3. m = "dall-e-3" => TableSlots(m) = <<>>
    BY Zenon DEF TableSlots, Modern
  <2>4. m \in Seedreams => m \notin Modern /\ m # "gpt-image-1.5" /\ m # "dall-e-3"
    BY DEF Modern, Seedreams
  <2>5. m \in Veos => m \notin Modern /\ m # "gpt-image-1.5" /\ m # "dall-e-3" /\ m \notin Seedreams
    BY DEF Modern, Seedreams, Veos
  <2>6. m = "seedance" => m \notin Modern /\ m # "gpt-image-1.5" /\ m # "dall-e-3" /\ m \notin Seedreams \cup Veos
    BY DEF Modern, Seedreams, Veos
  <2> HIDE DEF r4, r1, mask
  <2>7. m \in Seedreams => TableSlots(m) = <<r4>>
    BY <2>4, Zenon DEF TableSlots, r4
  <2>8. m \in Veos => TableSlots(m) = Frames
    BY <2>5, Zenon DEF TableSlots
  <2>9. m = "seedance" => TableSlots(m) = Append(Frames, mask)
    BY <2>6, Zenon DEF TableSlots, mask
  <2> QED
    BY <2>1, <2>2, <2>3, <2>7, <2>8, <2>9
<1>4. Frames = <<first, last, r4>>
  BY Zenon DEF Frames
<1> HIDE DEF r4, r1, mask, first, last
<1>5. CASE m \in Modern
  BY <1>2, <1>3, <1>5 DEF TableRoles, SlotsAre, TableMost, Modern
<1>6. CASE m = "gpt-image-1.5"
  BY <1>2, <1>3, <1>6 DEF TableRoles, SlotsAre, TableMost, Modern
<1>7. CASE m = "dall-e-3"
  BY <1>3, <1>7 DEF TableRoles, SlotsAre, Modern, Seedreams
<1>8. CASE m \in Seedreams
  BY <1>2, <1>3, <1>8 DEF TableRoles, SlotsAre, TableMost, Modern, Seedreams
<1>9. CASE m \in Veos
  BY <1>2, <1>3, <1>4, <1>9 DEF TableRoles, SlotsAre, TableMost, Modern, Seedreams, Veos
<1>10. CASE m = "seedance"
  <2> DEFINE slots == TableSlots(m)
  <2>1. DOMAIN slots = 1 .. 4 /\ slots[1] = first /\ slots[2] = last /\ slots[3] = r4 /\ slots[4] = mask
    BY <1>3, <1>4, <1>10
  <2>2. TableRoles(m) = {"first_frame", "last_frame", "reference_image", "mask"}
    BY <1>10 DEF TableRoles, Modern, Seedreams, Veos
  <2> HIDE DEF slots
  <2>3. \A i \in DOMAIN slots : i = 1 \/ i = 2 \/ i = 3 \/ i = 4
    BY <2>1
  <2>4. SlotsAre(slots, m)
    BY <1>2, <1>10, <2>1, <2>2, <2>3 DEF SlotsAre, TableMost
  <2> QED
    BY <2>4 DEF slots
<1> QED
  BY <1>1, <1>5, <1>6, <1>7, <1>8, <1>9, <1>10

-----------------------------------------------------------------------------
RolesOf(images) == [i \in DOMAIN images |-> images[i].role]

\* What the API lets through of the images of a request.
Carried(m, images) ==
    /\ Len(images) \in Nat /\ DOMAIN images = 1 .. Len(images)
    /\ \A i \in DOMAIN images : images[i].role \in TableRoles(m)
    /\ \A role \in TableRoles(m) : Cardinality(With(images, {role})) <= TableMost(m, role)

\* Places of a sequence are finitely many numbers.
LEMMA FinitePlaces ==
    ASSUME NEW images, Len(images) \in Nat, DOMAIN images = 1 .. Len(images), NEW P \in SUBSET DOMAIN images
    PROVE  P \subseteq Nat /\ IsFiniteSet(P) /\ Cardinality(P) \in Nat
<1>1. 1 \in Int /\ Len(images) \in Int
  OBVIOUS
<1>2. IsFiniteSet(1 .. Len(images))
  BY <1>1, FS_Interval
<1> QED
  BY <1>2, FS_Subset, FS_CardinalityType

\* The images of a request that is let through fit the slots of the model.
LEMMA ImagesCarried ==
    ASSUME NEW m \in DOMAIN Catalog, NEW images, Len(images) \in Nat, DOMAIN images = 1 .. Len(images),
           InputRefusals(Published[m], RolesOf(images)) = {}
    PROVE  Carried(m, images)
<1> DEFINE c == Published[m]
           roles == RolesOf(images)
<1>1. c.inputSlots = TableSlots(m) /\ SlotsAre(TableSlots(m), m)
  BY PublishedRow, SlotTable
<1>2. DOMAIN roles = DOMAIN images /\ \A i \in DOMAIN images : roles[i] = images[i].role
  BY DEF RolesOf
<1>3. /\ \A i \in DOMAIN roles : \E s \in DOMAIN c.inputSlots : c.inputSlots[s].role = roles[i]
      /\ \A s \in DOMAIN c.inputSlots :
             \/ ~(Times(roles, c.inputSlots[s].role) > c.inputSlots[s].maxCount)
             \/ c.inputSlots[s].required /\ Times(roles, c.inputSlots[s].role) = 0
  BY RefusedUnlessFit
<1>4. \A role : Times(roles, role) = Cardinality(With(images, {role}))
  <2>1. ASSUME NEW role
        PROVE  Times(roles, role) = Cardinality(With(images, {role}))
    <3>1. {i \in DOMAIN roles : roles[i] = role} = With(images, {role})
      BY <1>2 DEF With
    <3> QED
      BY <3>1 DEF Times
  <2> QED
    BY <2>1
<1>5. ASSUME NEW role \in TableRoles(m)
      PROVE  Cardinality(With(images, {role})) <= TableMost(m, role)
  <2>1. PICK s \in DOMAIN c.inputSlots : c.inputSlots[s].role = role
    BY <1>1 DEF SlotsAre
  <2>2. ~c.inputSlots[s].required /\ c.inputSlots[s].maxCount = TableMost(m, role)
    BY <1>1, <2>1 DEF SlotsAre
  <2>3. ~(Cardinality(With(images, {role})) > TableMost(m, role))
    BY <1>3, <1>4, <2>1, <2>2
  <2>4. Cardinality(With(images, {role})) \in Nat /\ TableMost(m, role) \in Nat
    BY FinitePlaces DEF With, TableMost
  <2> QED
    BY <2>3, <2>4
<1>6. \A i \in DOMAIN images : images[i].role \in TableRoles(m)
  BY <1>1, <1>2, <1>3 DEF SlotsAre
<1> QED
  BY <1>5, <1>6 DEF Carried

-----------------------------------------------------------------------------
(* An order that was admitted, and what the worker makes of it.                      *)


\* A masked edit: the picture, and the mask that was made for it.
Drawn(o) == o.model \in Modern /\ \E d \in Drawings : o.images = <<EditSource(d), EditMask(EditSource(d))>>

\* An order the API admitted.
Fine(o) ==
    /\ o.model \in DOMAIN Catalog
    /\ Kept(o.model, o.parameters)
    /\ Carried(o.model, o.images)
    /\ o.drawing # {} => Drawn(o)

\* What the editor makes of a drawing.
LEMMA MaskMade ==
    ASSUME NEW d
    PROVE  LET source == EditSource(d)
               mask   == EditMask(source)
           IN /\ source.role = "reference_image" /\ ~source.large
              /\ mask.role = "mask" /\ mask.format = "png" /\ mask.geometry = source.geometry /\ ~mask.large
BY DEF EditMask, EditSource

\* What the worker makes of an order.
LEMMA RequestBuilt ==
    ASSUME NEW o
    PROVE  LET r == BuildMediaRequest(o)
               P == o.parameters
           IN /\ r.model = o.model /\ r.images = o.images /\ r.parameters = P
              /\ r.size = IF "size" \in DOMAIN P THEN {P["size"]} ELSE {}
              /\ r.quality = IF "quality" \in DOMAIN P THEN {P["quality"]} ELSE {}
              /\ "count" \in DOMAIN P => r.count = P["count"]
              /\ "watermark" \in DOMAIN P => r.watermark = P["watermark"]
              /\ "durationSeconds" \in DOMAIN P => r.seconds = {NumberOf(P["durationSeconds"])}
              /\ r.extra = VideoParameters(P)
<1> DEFINE r == BuildMediaRequest(o)
           P == o.parameters
<1>1. /\ r.model = o.model /\ r.images = o.images /\ r.parameters = P
      /\ r.size = IF "size" \in DOMAIN P THEN {P["size"]} ELSE {}
      /\ r.quality = IF "quality" \in DOMAIN P THEN {P["quality"]} ELSE {}
      /\ "count" \in DOMAIN P => r.count = P["count"]
      /\ "watermark" \in DOMAIN P => r.watermark = P["watermark"]
      /\ r.extra = VideoParameters(P)
  BY DEF BuildMediaRequest
<1>2. ASSUME "durationSeconds" \in DOMAIN P
      PROVE  r.seconds = {NumberOf(P["durationSeconds"])}
  <2> DEFINE given(n) == IF n \in DOMAIN P THEN {P[n]} ELSE {}
             from == IF given("durationSeconds") # {} THEN given("durationSeconds") ELSE given("duration")
  <2>1. from = {P["durationSeconds"]}
    BY <1>2
  <2>2. r.seconds = {NumberOf(v) : v \in from}
    BY DEF BuildMediaRequest
  <2> HIDE DEF from, r, P
  <2> QED
    BY <2>1, <2>2
<1> QED
  BY <1>1, <1>2

\* A rule looks at the parameters of the model only, and its plugin refuses nothing that was kept.
LEMMA KeptAgain ==
    ASSUME NEW m \in DOMAIN Catalog, NEW P, Kept(m, P)
    PROVE  ValidateAgainstDeclaration(Catalog[m], P) = {}
<1> DEFINE c == Catalog[m]
<1>1. c.crossFieldConstraints = TableRules(m) /\ NamesOf(c.parameters) = TableNames(m)
  BY EveryRow DEF Row, Entry
<1>2. [n \in DOMAIN P \cap NamesOf(c.parameters) |-> P[n]] = P
  <2>1. DOMAIN P \cap NamesOf(c.parameters) = DOMAIN P
    BY <1>1 DEF Kept
  <2> QED
    BY <2>1 DEF Kept
<1>3. EvaluateCrossFieldConstraints(
          c.crossFieldConstraints, [n \in DOMAIN P \cap NamesOf(c.parameters) |-> P[n]]) = {}
  BY <1>1, <1>2 DEF Kept
<1> DEFINE issues(d) == IF d.name \notin DOMAIN P
                        THEN IF d.required /\ d.default = {}
                             THEN {Issue("MISSING_REQUIRED_PARAMETER", {d.name})} ELSE {}
                        ELSE {Issue(code, {d.name}) : code \in ValueIssues(d, P[d.name])}
<1>4. ASSUME NEW d \in DescriptorsOf(c.parameters)
      PROVE  issues(d) = {}
  <2>1. d.name \in TableNames(m) /\ d = DescriptorIn(m, d.name)
    BY NamesDeclared
  <2>2. ~d.required
    <3>1. Tabled(m, d)
      BY <2>1, DeclaredRow, Zenon
    <3> QED
      BY <3>1, Zenon DEF Tabled
  <2>3. CASE d.name \in DOMAIN P
    <3>1. ValueIssues(d, P[d.name]) = {}
      BY <2>1, <2>3 DEF Kept, Legal
    <3> QED
      BY <2>3, <3>1
  <2> QED
    BY <2>2, <2>3
<1> HIDE DEF issues
<1>5. UNION {issues(d) : d \in DescriptorsOf(c.parameters)} = {}
  BY <1>4
<1> QED
  BY <1>3, <1>5 DEF ValidateAgainstDeclaration, issues

\* The spelt fields of a request are parameters of it.
LEMMA TypedAgain ==
    ASSUME NEW P, P = [n \in DOMAIN P |-> P[n]], {"size", "quality", "count"} \subseteq DOMAIN P,
           NEW size, size = {P["size"]}, NEW quality, quality = {P["quality"]}, NEW count, count = P["count"]
    PROVE  Over(Present([size |-> size, quality |-> quality, count |-> {count}]), P) = P
<1> DEFINE values == [size |-> size, quality |-> quality, count |-> {count}]
           spelt == Present(values)
<1>1. /\ DOMAIN values = {"size", "quality", "count"}
      /\ \A n \in DOMAIN values : values[n] = {P[n]}
  OBVIOUS
<1> HIDE DEF values
<1>2. DOMAIN spelt = {"size", "quality", "count"} /\ \A n \in DOMAIN spelt : spelt[n] = P[n]
  <2>1. \A n : n \in DOMAIN spelt <=> n \in DOMAIN values /\ values[n] # {}
    BY PresentFields
  <2>2. \A n \in DOMAIN values : \A v : values[n] = {v} => spelt[n] = v
    BY PresentFields
  <2> QED
    BY <1>1, <2>1, <2>2
<1> HIDE DEF spelt
<1>3. DOMAIN spelt \cup DOMAIN P = DOMAIN P
  BY <1>2
<1>4. Over(spelt, P) = [n \in DOMAIN P |-> P[n]]
  BY <1>2, <1>3 DEF Over
<1> QED
  BY <1>4 DEF spelt, values

MaskExcuses == {"mask format", "mask without image", "mask geometry", "mask bytes"}

\* Of the only mask there is, its adapter looks at what the API does not.
LEMMA MaskRefused ==
    ASSUME NEW images, Cardinality(With(images, {"mask"})) <= 1, Cardinality(With(images, {"mask"})) \in Nat
    PROVE  MaskRefusals(images) \subseteq MaskExcuses
<1>1. ~(Cardinality(With(images, {"mask"})) > 1)
  OBVIOUS
<1> QED
  BY <1>1, Zenon DEF MaskRefusals, MaskExcuses

\* The first of one place is the place.
LEMMA FirstOfOne ==
    ASSUME NEW i \in Int
    PROVE  InOrder({i})[1] = i
<1>1. Cardinality({i}) = 1
  BY FS_Singleton
<1>2. {j \in {i} : j <= i} = {i}
  OBVIOUS
<1>3. InOrder({i}) = [k \in 1 .. 1 |-> CHOOSE x \in {i} : Cardinality({j \in {i} : j <= x}) = k]
  BY <1>1 DEF InOrder
<1>4. InOrder({i})[1] = CHOOSE x \in {i} : Cardinality({j \in {i} : j <= x}) = 1
  BY <1>3
<1> QED
  BY <1>1, <1>2, <1>4

\* A mask the editor made is never refused.
LEMMA DrawnMaskTaken ==
    ASSUME NEW d
    PROVE  MaskRefusals(<<EditSource(d), EditMask(EditSource(d))>>) = {}
<1> DEFINE source == EditSource(d)
           mask == EditMask(source)
           images == <<source, mask>>
<1>1. /\ source.role = "reference_image"
      /\ mask.role = "mask" /\ mask.format = "png" /\ mask.geometry = source.geometry /\ ~mask.large
  BY MaskMade
<1> HIDE DEF source, mask
<1>2. DOMAIN images = {1, 2} /\ images[1] = source /\ images[2] = mask
  OBVIOUS
<1> HIDE DEF images
<1>3. With(images, {"mask"}) = {2} /\ DOMAIN images \ With(images, {"mask"}) = {1}
  BY <1>1, <1>2 DEF With
<1>4. InOrder({2})[1] = 2 /\ InOrder({1})[1] = 1
  BY FirstOfOne
<1>5. ~(Cardinality({2}) > 1)
  <2>1. Cardinality({2}) = 1
    BY FS_Singleton
  <2> QED
    BY <2>1
<1>6. /\ {2} # {} /\ {1} # {}
      /\ images[InOrder({2})[1]] = mask /\ images[InOrder({1})[1]] = source
  BY <1>2, <1>4
<1>7. MaskRefusals(images) = {}
  BY <1>1, <1>3, <1>5, <1>6, Zenon DEF MaskRefusals
<1> QED
  BY <1>7 DEF images, mask, source

-----------------------------------------------------------------------------
(* What each adapter refuses of such an order.                                      *)


\* The two roles of a model of OpenAI, and the places of either.
LEMMA ReferencesCounted ==
    ASSUME NEW m \in OpenAi, NEW images, Carried(m, images), m \in DOMAIN Catalog
    PROVE  /\ DOMAIN images \ With(images, {"mask"}) = With(images, {"reference_image"})
           /\ Cardinality(With(images, {"mask"})) \in Nat /\ Cardinality(With(images, {"mask"})) <= 1
           /\ "reference_image" \in TableRoles(m) =>
                  Cardinality(With(images, {"reference_image"})) <= TableMost(m, "reference_image")
           /\ "reference_image" \notin TableRoles(m) => Cardinality(With(images, {"reference_image"})) = 0
<1>1. TableRoles(m) \subseteq {"reference_image", "mask"}
  BY DEF TableRoles, OpenAi, Modern, Seedreams
<1>2. DOMAIN images \ With(images, {"mask"}) = With(images, {"reference_image"})
  BY <1>1 DEF Carried, With
<1>3. \A role : Cardinality(With(images, {role})) \in Nat
  BY FinitePlaces DEF With, Carried
<1>4. \A role : role \notin TableRoles(m) => With(images, {role}) = {}
  BY DEF Carried, With
<1>5. Cardinality({}) = 0
  BY FS_EmptySet
<1>6. Cardinality(With(images, {"mask"})) <= 1
  <2>1. CASE "mask" \in TableRoles(m)
    <3>1. TableMost(m, "mask") = 1
      BY DEF TableMost
    <3> QED
      BY <2>1, <3>1 DEF Carried
  <2>2. CASE "mask" \notin TableRoles(m)
    BY <1>4, <1>5, <2>2
  <2> QED
    BY <2>1, <2>2
<1> QED
  BY <1>2, <1>3, <1>4, <1>5, <1>6 DEF Carried

\* Every order for OpenAI has a size, a quality and a count.
LEMMA OpenAiKeeps ==
    ASSUME NEW m \in OpenAi, NEW P, Kept(m, P)
    PROVE  {"size", "quality", "count"} \subseteq DOMAIN P
BY DEF Kept, TableNames, OpenAi, Modern, Optional

\* OpenAI refuses of an order only its mask, and no mask that was made of a drawing.
LEMMA OpenAiTakes ==
    ASSUME NEW o, Fine(o), o.model \in OpenAi
    PROVE  /\ OpenAiRefusals(BuildMediaRequest(o)) \subseteq MaskExcuses
           /\ o.drawing # {} => OpenAiRefusals(BuildMediaRequest(o)) = {}
<1> DEFINE r == BuildMediaRequest(o)
           m == o.model
           P == o.parameters
           slots == {s \in Range(Catalog[m].inputSlots) : s.role = "reference_image"}
           most  == IF slots = {} THEN 0 ELSE TheOnly(slots).maxCount
           spelt == Present([size |-> r.size, quality |-> r.quality, count |-> {r.count}])
           bases == DOMAIN o.images \ With(o.images, {"mask"})
<1>1. m \in DOMAIN Catalog /\ Kept(m, P) /\ Carried(m, o.images)
  BY DEF Fine
<1>2. {"size", "quality", "count"} \subseteq DOMAIN P
  BY <1>1, OpenAiKeeps
<1>3. /\ r.model = m /\ r.images = o.images /\ r.parameters = P
      /\ r.size = {P["size"]} /\ r.quality = {P["quality"]} /\ r.count = P["count"]
  BY <1>2, RequestBuilt
<1>4. Over(spelt, P) = P
  BY <1>1, <1>2, <1>3, TypedAgain DEF Kept
<1>5. ValidateAgainstDeclaration(Catalog[m], P) = {}
  BY <1>1, KeptAgain
<1>6. Cardinality(bases) <= most
  <2>1. Catalog[m].inputSlots = TableSlots(m) /\ SlotsAre(TableSlots(m), m)
    BY <1>1, EveryRow, SlotTable DEF Row, Entry
  <2>2. \A s : s \in slots <=> \E i \in DOMAIN TableSlots(m) : s = TableSlots(m)[i] /\ s.role = "reference_image"
    BY <2>1 DEF Range
  <2>3. \A s \in slots : s.maxCount = TableMost(m, "reference_image")
    BY <2>1, <2>2 DEF SlotsAre
  <2>4. slots = {} <=> "reference_image" \notin TableRoles(m)
    BY <2>1, <2>2 DEF SlotsAre
  <2>5. slots # {} => TheOnly(slots) \in slots
    BY DEF TheOnly
  <2>8. /\ "reference_image" \in TableRoles(m) => Cardinality(bases) <= TableMost(m, "reference_image")
        /\ "reference_image" \notin TableRoles(m) => Cardinality(bases) = 0
    BY <1>1, ReferencesCounted
  <2>9. /\ slots = {} => most = 0
        /\ slots # {} => most = TheOnly(slots).maxCount
    OBVIOUS
  <2> HIDE DEF slots, most, bases
  <2>6. CASE slots = {}
    BY <2>4, <2>6, <2>8, <2>9
  <2>7. CASE slots # {}
    BY <2>3, <2>4, <2>5, <2>7, <2>8, <2>9
  <2> QED
    BY <2>6, <2>7
<1>7. OpenAiRefusals(r) = MaskRefusals(o.images)
  <2> DEFINE issues == ValidateAgainstDeclaration(Catalog[r.model], Over(spelt, r.parameters))
             wanted == {s \in Range(Catalog[r.model].inputSlots) : s.role = "reference_image"}
             limit == IF wanted = {} THEN 0 ELSE TheOnly(wanted).maxCount
             few   == Cardinality(DOMAIN r.images \ With(r.images, {"mask"})) <= limit
         names  == UNION {i.about : i \in issues}
             over   == Unless(few, "references")
             mask   == MaskRefusals(r.images)
  <2>1. OpenAiRefusals(r) = names \cup over \cup mask
    BY Zenon DEF OpenAiRefusals
  <2>2. issues = {}
    BY <1>3, <1>4, <1>5
  <2>3. few
    BY <1>3, <1>6
  <2>4. mask = MaskRefusals(o.images)
    BY <1>3
  <2> HIDE DEF few, issues
  <2>5. over = {}
    BY <2>3, Zenon DEF Unless
  <2>6. names = {}
    BY <2>2
  <2> HIDE DEF names, over, mask, r
  <2> QED
    BY <2>1, <2>4, <2>5, <2>6
<1>8. MaskRefusals(o.images) \subseteq MaskExcuses
  BY <1>1, ReferencesCounted, MaskRefused
<1>9. o.drawing # {} => MaskRefusals(o.images) = {}
  BY DrawnMaskTaken DEF Fine, Drawn
<1> QED
  BY <1>7, <1>8, <1>9

-----------------------------------------------------------------------------
\* The parameters of an order for Seedream.
LEMMA SeedreamKeeps ==
    ASSUME NEW m \in Seedreams, NEW P, Kept(m, P)
    PROVE  DOMAIN P = {"size", "count", "watermark"}
BY DEF Kept, TableNames, Seedreams, Modern, Optional

\* A size that is legal for a model with numbered sizes only has a geometry.
LEMMA LegalGeometry ==
    ASSUME NEW d, NEW v, d.type = "image-size", Legal(d, v), \A i \in DOMAIN d.presets : d.presets[i].value # AutoSize
    PROVE  v.kind = "string" /\ ParsedSize(v) # {}
<1>1. ImageSizeIssues(d, v) = {}
  BY Zenon DEF Legal, ValueIssues
<1>2. v.kind = "string"
  BY <1>1 DEF ImageSizeIssues
<1>3. ~(v \in PresetValues(d) /\ v = AutoSize)
  BY DEF PresetValues
<1>4. ParsedSize(v) # {}
  BY <1>1, <1>2, <1>3, Zenon DEF ImageSizeIssues
<1> QED
  BY <1>2, <1>4

\* Seedream refuses of an order only a size that is spelt with leading zeros.
LEMMA SeedreamTakes ==
    ASSUME NEW o, Fine(o), o.model \in Seedreams
    PROVE  /\ SeedreamRefusals(BuildMediaRequest(o)) \subseteq {"size"}
           /\ "padded" \notin DOMAIN o.parameters["size"] => SeedreamRefusals(BuildMediaRequest(o)) = {}
           /\ o.drawing = {}
<1> DEFINE r == BuildMediaRequest(o)
           m == o.model
           P == o.parameters
           c == Catalog[m].parameters
<1>1. m \in DOMAIN Catalog /\ Kept(m, P)
  BY DEF Fine
<1>2. DOMAIN P = {"size", "count", "watermark"}
  BY <1>1, SeedreamKeeps
<1>3. /\ r.model = m /\ r.size = {P["size"]} /\ r.count = P["count"] /\ r.watermark = P["watermark"]
  BY <1>2, RequestBuilt
<1>4. \A n \in {"size", "count", "watermark"} : Legal(Descriptor(c, n), P[n])
  BY <1>1, <1>2 DEF Kept, DescriptorIn
<1>5. P["size"].kind = "string" /\ ParsedSize(P["size"]) # {}
  <2>1. "size" \in TableNames(m)
    BY <1>1, <1>2 DEF Kept
  <2> DEFINE d == Descriptor(c, "size")
  <2>2. Tabled(m, d) /\ Told(m, d) /\ d.name = "size"
    BY <1>1, <2>1, DeclaredRow DEF DescriptorIn
  <2>3. d.type = "image-size" /\ \A i \in DOMAIN d.presets : d.presets[i].value # AutoSize
    BY <2>2 DEF Tabled, Told, TableType
  <2> HIDE DEF d
  <2> QED
    BY <1>4, <2>3, LegalGeometry DEF d
<1> DEFINE fits == \A v \in r.size : "padded" \notin DOMAIN v /\ v.kind = "string" /\ ParsedSize(v) # {}
                                   /\ Legal(Descriptor(c, "size"), v)
<1>6. "padded" \notin DOMAIN P["size"] => fits
  BY <1>3, <1>4, <1>5
<1>7. SeedreamRefusals(r) = Unless(fits, "size") \cup Unless(Legal(Descriptor(c, "count"), r.count), "count")
                            \cup Unless(Legal(Descriptor(c, "watermark"), r.watermark), "watermark")
  BY <1>3, Zenon DEF SeedreamRefusals
<1>8. Unless(Legal(Descriptor(c, "count"), r.count), "count") = {}
  BY <1>3, <1>4, Zenon DEF Unless
<1>9. Unless(Legal(Descriptor(c, "watermark"), r.watermark), "watermark") = {}
  BY <1>3, <1>4, Zenon DEF Unless
<1>10. Unless(fits, "size") \subseteq {"size"} /\ ("padded" \notin DOMAIN P["size"] => Unless(fits, "size") = {})
  BY <1>6, Zenon DEF Unless
<1>11. o.drawing = {}
  BY DEF Fine, Drawn, Modern, Seedreams
<1> HIDE DEF r, m, P, c, fits
<1> QED
  BY <1>7, <1>8, <1>9, <1>10, <1>11 DEF r, P


\* A numeral that was made a number is written as it was.
LEMMA NumeralBack ==
    ASSUME NEW w \in {"4", "6", "8"}
    PROVE  /\ \E k \in 0 .. 30 : NumberOf(Word(w)) = Number(10 * k)
           /\ StringOf(NumberOf(Word(w))) = Word(w)
<1> DEFINE numerals == {k \in 0 .. 30 : Word(ToString(k)) = Word(w)}
           values == {Number(10 * n) : n \in numerals}
<1>1. PICK k0 \in 0 .. 30 : ToString(k0) = w
  BY NumeralsAssumption
<1>2. k0 \in numerals
  BY <1>1, Zenon
<1>3. ~IsNumber(Word(w))
  BY DEF IsNumber, Word
<1>4. NumberOf(Word(w)) = TheOnly(values)
  BY <1>3, Zenon DEF NumberOf
<1>5. TheOnly(values) \in values
  BY <1>2, Zenon DEF TheOnly
<1>6. PICK k \in numerals : NumberOf(Word(w)) = Number(10 * k)
  BY <1>4, <1>5, Zenon
<1>7. k \in 0 .. 30 /\ Word(ToString(k)) = Word(w)
  BY <1>6, Zenon
<1>8. (10 * k) \div 10 = k
  BY <1>7
<1>9. IsNumber(Number(10 * k)) /\ Number(10 * k).tenths = 10 * k
  BY DEF IsNumber, Number
<1>10. StringOf(Number(10 * k)) = Word(ToString(k))
  <2>1. \A v : IsNumber(v) => StringOf(v) = Word(ToString(v.tenths \div 10))
    BY Zenon DEF StringOf
  <2> QED
    BY <1>8, <1>9, <2>1, Zenon
<1> HIDE DEF numerals, values
<1> QED
  BY <1>6, <1>7, <1>10, Zenon

\* What a credential decides instead of a request.
Overrides(vendor) == (DOMAIN vendor \cap {"aspectRatio", "resolution", "seed", "audio"})
                     \cup (IF "generateAudio" \in DOMAIN vendor THEN {"audio"} ELSE {})

VeoNames == {"durationSeconds", "aspectRatio", "resolution", "audio", "count"}

\* The parameters of an order for Veo.
LEMMA VeoKeeps ==
    ASSUME NEW m \in Veos, m \in DOMAIN Catalog, NEW P, Kept(m, P)
    PROVE  /\ DOMAIN P = VeoNames
           /\ \E w \in {"4", "6", "8"} : P["durationSeconds"] = Word(w)
<1>1. DOMAIN P = VeoNames
  BY DEF Kept, TableNames, Veos, Seedreams, Modern, Optional, VeoNames
<1> DEFINE d == DescriptorIn(m, "durationSeconds")
           v == P["durationSeconds"]
<1>2. Legal(d, v) /\ "durationSeconds" \in TableNames(m)
  BY <1>1 DEF Kept, VeoNames
<1>3. Tabled(m, d) /\ Told(m, d) /\ d.name = "durationSeconds"
  BY <1>2, DeclaredRow
<1>4. d.type = "enum" /\ d.options = Words(<<"4", "6", "8">>)
  BY <1>3 DEF Tabled, Told, TableType, Veos
<1> HIDE DEF d, v
<1>5. v \in OptionValues(d)
  BY <1>2, <1>4, LegalKind
<1>6. \E i \in DOMAIN Words(<<"4", "6", "8">>) : v = Words(<<"4", "6", "8">>)[i]
  BY <1>4, <1>5 DEF OptionValues
<1>7. \A i \in DOMAIN Words(<<"4", "6", "8">>) : \E w \in {"4", "6", "8"} : Words(<<"4", "6", "8">>)[i] = Word(w)
  BY DEF Words
<1> QED
  BY <1>1, <1>6, <1>7 DEF v

\* What Veo is asked.
LEMMA VeoAsks ==
    ASSUME NEW m \in Veos, m \in DOMAIN Catalog, NEW P, Kept(m, P), NEW vendor,
           NEW r, r.extra = VideoParameters(P), r.seconds = {NumberOf(P["durationSeconds"])}, r.count = P["count"]
    PROVE  LET f == VeoFields(r, vendor)
           IN /\ DOMAIN f = {"durationSeconds", "aspectRatio", "resolution", "sampleCount", "generateAudio"}
                            \cup (DOMAIN vendor \cap {"seed"})
              /\ f.durationSeconds = NumberOf(P["durationSeconds"])
              /\ "aspectRatio" \notin DOMAIN vendor => f.aspectRatio = P["aspectRatio"]
              /\ "resolution" \notin DOMAIN vendor => f.resolution = P["resolution"]
              /\ f.sampleCount = P["count"]
              /\ "audio" \notin Overrides(vendor) => f.generateAudio = P["audio"]
<1> DEFINE extra    == Over(vendor, r.extra)
           or(n, v) == IF n \in DOMAIN extra THEN extra[n] ELSE v
           audio    == IF "generateAudio" \in DOMAIN extra THEN {extra.generateAudio}
                       ELSE IF "audio" \in DOMAIN extra THEN {extra.audio} ELSE {}
           seed     == IF "seed" \in DOMAIN extra THEN {NumberOf(extra.seed)} ELSE {}
           length   == IF r.seconds = {} THEN {NumberOf(or("durationSeconds", Number(80)))} ELSE r.seconds
           values   == [durationSeconds |-> length,
                        aspectRatio |-> {or("aspectRatio", Word("16:9"))}, resolution |-> {or("resolution", Word("720p"))},
                        sampleCount |-> {r.count}, generateAudio |-> audio, seed |-> seed]
           f        == VeoFields(r, vendor)
<1>1. f = Present(values)
  BY Zenon DEF VeoFields
<1>2. DOMAIN P = VeoNames
  BY VeoKeeps
<1>3. /\ DOMAIN r.extra = {"aspectRatio", "resolution", "audio"}
      /\ \A n \in DOMAIN r.extra : r.extra[n] = P[n]
  BY <1>2 DEF VideoParameters, VeoNames
<1>4. /\ DOMAIN extra = DOMAIN vendor \cup {"aspectRatio", "resolution", "audio"}
      /\ \A n \in DOMAIN extra : extra[n] = IF n \in DOMAIN vendor THEN vendor[n] ELSE P[n]
  BY <1>3 DEF Over
<1> HIDE DEF extra
<1>5. /\ audio # {} /\ ("audio" \notin Overrides(vendor) => audio = {P["audio"]})
  BY <1>4 DEF Overrides
<1>6. seed # {} <=> "seed" \in DOMAIN vendor
  BY <1>4
<1>7. length = {NumberOf(P["durationSeconds"])}
  OBVIOUS
<1>8. /\ "aspectRatio" \notin DOMAIN vendor => or("aspectRatio", Word("16:9")) = P["aspectRatio"]
      /\ "resolution" \notin DOMAIN vendor => or("resolution", Word("720p")) = P["resolution"]
  BY <1>4
<1> DEFINE ratio == or("aspectRatio", Word("16:9"))
           sharp == or("resolution", Word("720p"))
<1> HIDE DEF audio, seed, length, ratio, sharp
<1>9. /\ DOMAIN values = {"durationSeconds", "aspectRatio", "resolution", "sampleCount", "generateAudio", "seed"}
      /\ values["durationSeconds"] = length /\ values["aspectRatio"] = {ratio} /\ values["resolution"] = {sharp}
      /\ values["sampleCount"] = {r.count} /\ values["generateAudio"] = audio /\ values["seed"] = seed
  BY DEF ratio, sharp
<1>10. /\ "aspectRatio" \notin DOMAIN vendor => ratio = P["aspectRatio"]
       /\ "resolution" \notin DOMAIN vendor => sharp = P["resolution"]
  BY <1>8 DEF ratio, sharp
<1> HIDE DEF values, or
<1>11. /\ \A n : n \in DOMAIN f <=> n \in DOMAIN values /\ values[n] # {}
       /\ \A n \in DOMAIN values : \A v : values[n] = {v} => f[n] = v
  BY <1>1, PresentFields
<1> HIDE DEF f
<1>12. DOMAIN f = {"durationSeconds", "aspectRatio", "resolution", "sampleCount", "generateAudio"}
                  \cup (DOMAIN vendor \cap {"seed"})
  <2>1. length # {} /\ {ratio} # {} /\ {sharp} # {} /\ {r.count} # {} /\ audio # {}
        /\ (seed # {} <=> "seed" \in DOMAIN vendor)
    BY <1>5, <1>6, <1>7
  <2>2. \A n \in DOMAIN values : values[n] # {} <=> n # "seed" \/ "seed" \in DOMAIN vendor
    BY <1>9, <2>1, Zenon
  <2>3. \A n : n \in DOMAIN f <=> n \in DOMAIN values /\ (n # "seed" \/ "seed" \in DOMAIN vendor)
    BY <1>11, <2>2, Zenon
  <2> DEFINE named == DOMAIN f
             asked == DOMAIN values
             theirs == DOMAIN vendor
  <2>4. asked = {"durationSeconds", "aspectRatio", "resolution", "sampleCount", "generateAudio", "seed"}
    BY <1>9
  <2>5. \A n : n \in named <=> n \in asked /\ (n # "seed" \/ "seed" \in theirs)
    BY <2>3
  <2> HIDE DEF named, asked, theirs
  <2>6. named = {"durationSeconds", "aspectRatio", "resolution", "sampleCount", "generateAudio"}
                \cup (theirs \cap {"seed"})
    BY <2>4, <2>5
  <2> QED
    BY <2>6 DEF named, theirs
<1>13. /\ f["durationSeconds"] = NumberOf(P["durationSeconds"]) /\ f["sampleCount"] = P["count"]
       /\ f["aspectRatio"] = ratio /\ f["resolution"] = sharp
       /\ "audio" \notin Overrides(vendor) => f["generateAudio"] = P["audio"]
  BY <1>5, <1>7, <1>9, <1>11
<1> QED
  BY <1>10, <1>12, <1>13 DEF f


\* The refusals of Veo that the API does not foresee.
VeoExcused(what, vendor) ==
    \/ what = "large image"
    \/ what \in Overrides(vendor)
    \/ what = "durationSeconds" /\ "resolution" \in Overrides(vendor)

\* The rules of Veo forbid resolutions of some lengths,
LEMMA VeoRules ==
    ASSUME NEW m \in Veos, NEW rule \in TableRules(m)
    PROVE  rule.type = "forbidden" /\ Source(rule) = "resolution" /\ rule.pair[2] = "durationSeconds"
<1>1. m \notin Modern
  BY DEF Veos, Modern
<1>2. PICK w : rule = Forbidden("resolution", Word(w), "durationSeconds", {Word("4"), Word("6")})
  BY <1>1 DEF TableRules
<1> QED
  BY <1>2 DEF Forbidden, Source

\* and one is broken only where the resolution is not the one that was ordered.
LEMMA VeoCouplings ==
    ASSUME NEW m \in Veos, m \in DOMAIN Catalog, NEW P, Kept(m, P), NEW said,
           {"resolution", "durationSeconds"} \subseteq DOMAIN said,
           said["durationSeconds"] = P["durationSeconds"], NEW i \in EvaluateCrossFieldConstraints(TableRules(m), said)
    PROVE  i.about = {"resolution", "durationSeconds"} /\ said["resolution"] # P["resolution"]
<1>1. PICK rule \in TableRules(m) : i \in CrossFieldIssues(rule, said)
  BY DEF EvaluateCrossFieldConstraints
<1>2. rule.type = "forbidden" /\ Source(rule) = "resolution" /\ rule.pair[2] = "durationSeconds"
  BY VeoRules
<1>3. i.about = {"resolution", "durationSeconds"}
  BY <1>1, <1>2, IssuePair
<1>4. ASSUME said["resolution"] = P["resolution"]
      PROVE  FALSE
  <2>1. {"resolution", "durationSeconds"} \subseteq DOMAIN P
    BY VeoKeeps DEF VeoNames
  <2>2. CrossFieldIssues(rule, said) = CrossFieldIssues(rule, P)
    BY <1>2, <1>4, <2>1, SamePair DEF CouplingTypes
  <2>3. CrossFieldIssues(rule, P) = {}
    BY DEF Kept, EvaluateCrossFieldConstraints
  <2> QED
    BY <1>1, <2>2, <2>3
<1> QED
  BY <1>3, <1>4

\* What Veo is asked was legal when it was stored.
LEMMA VeoLegal ==
    ASSUME NEW m \in Veos, m \in DOMAIN Catalog, NEW P, Kept(m, P), NEW n \in VeoNames
    PROVE  /\ Legal(DescriptorIn(m, n), P[n])
           /\ n \in {"durationSeconds", "aspectRatio", "resolution"} => P[n] \in OptionValues(DescriptorIn(m, n))
<1>1. n \in DOMAIN P
  BY VeoKeeps
<1>2. n \in TableNames(m) /\ Legal(DescriptorIn(m, n), P[n])
  BY <1>1 DEF Kept
<1>3. Tabled(m, DescriptorIn(m, n)) /\ DescriptorIn(m, n).name = n
  BY <1>2, DeclaredRow
<1>4. n \in {"durationSeconds", "aspectRatio", "resolution"} => DescriptorIn(m, n).type = "enum"
  BY <1>3 DEF Tabled, TableType, Veos
<1> QED
  BY <1>2, <1>4, LegalKind

\* Veo refuses of an order only a large image and what its credential decides.
LEMMA VeoTakes ==
    ASSUME NEW o, Fine(o), o.model \in Veos, NEW vendor, NEW what \in VeoRefusals(BuildMediaRequest(o), vendor)
    PROVE  VeoExcused(what, vendor) /\ o.drawing = {}
<1> DEFINE r == BuildMediaRequest(o)
           m == o.model
           P == o.parameters
           c == Catalog[r.model]
           f == VeoFields(r, vendor)
           d(n) == Descriptor(c.parameters, n)
           said == [durationSeconds |-> StringOf(f.durationSeconds), aspectRatio |-> f.aspectRatio,
                    resolution |-> f.resolution]
           coupled == EvaluateCrossFieldConstraints(c.crossFieldConstraints, said)
           large == Unless(\A i \in DOMAIN r.images : ~r.images[i].large, "large image")
           seedOK == "seed" \in DOMAIN f => Whole(f.seed) /\ f.seed.tenths >= 0
           audioOK == "generateAudio" \in DOMAIN f => Legal(d("audio"), f.generateAudio)
           countOK == Legal(d("count"), f.sampleCount)
<1>1. m \in DOMAIN Catalog /\ Kept(m, P) /\ m \in Veos
  BY DEF Fine
<1>2. DOMAIN P = VeoNames
  BY <1>1, VeoKeeps
<1>3. /\ r.model = m /\ r.images = o.images /\ r.count = P["count"] /\ r.extra = VideoParameters(P)
      /\ r.seconds = {NumberOf(P["durationSeconds"])}
  BY <1>2, RequestBuilt DEF VeoNames
<1>4. /\ DOMAIN f = {"durationSeconds", "aspectRatio", "resolution", "sampleCount", "generateAudio"}
                    \cup (DOMAIN vendor \cap {"seed"})
      /\ f.durationSeconds = NumberOf(P["durationSeconds"])
      /\ "aspectRatio" \notin DOMAIN vendor => f.aspectRatio = P["aspectRatio"]
      /\ "resolution" \notin DOMAIN vendor => f.resolution = P["resolution"]
      /\ f.sampleCount = P["count"]
      /\ "audio" \notin Overrides(vendor) => f.generateAudio = P["audio"]
  <2> HIDE DEF r, P, m
  <2> QED
    BY <1>1, <1>3, VeoAsks
<1>5. \A n \in VeoNames : d(n) = DescriptorIn(m, n)
  BY <1>3 DEF DescriptorIn
<1>6. StringOf(f.durationSeconds) = P["durationSeconds"]
  BY <1>1, <1>4, VeoKeeps, NumeralBack
<1> DEFINE values == UNION {Unless(said[n] \in OptionValues(d(n)), n) : n \in DOMAIN said}
           pairs  == UNION {i.about : i \in coupled}
<1>7. VeoRefusals(r, vendor) = values \cup pairs \cup Unless(countOK, "count") \cup Unless(seedOK, "seed")
                               \cup Unless(audioOK, "audio") \cup large
  BY Zenon DEF VeoRefusals
<1>8. \/ \E n \in DOMAIN said : what \in Unless(said[n] \in OptionValues(d(n)), n)
      \/ \E i \in coupled : what \in i.about
      \/ what \in Unless(countOK, "count")
      \/ what \in Unless(seedOK, "seed")
      \/ what \in Unless(audioOK, "audio")
      \/ what \in large
  <2>1. what \in values => \E n \in DOMAIN said : what \in Unless(said[n] \in OptionValues(d(n)), n)
    BY Zenon
  <2>2. what \in pairs => \E i \in coupled : what \in i.about
    BY Zenon
  <2> HIDE DEF values, pairs, countOK, seedOK, audioOK, large, r, said, coupled, d
  <2> QED
    BY <1>7, <2>1, <2>2 DEF r
<1>9. /\ DOMAIN said = {"durationSeconds", "aspectRatio", "resolution"}
      /\ said["durationSeconds"] = P["durationSeconds"] /\ said["aspectRatio"] = f.aspectRatio
      /\ said["resolution"] = f.resolution
  BY <1>6
<1>10. \A b, n : what \in Unless(b, n) => what = n /\ ~b
  BY DEF Unless
<1>11. c.crossFieldConstraints = TableRules(m)
  BY <1>1, <1>3, EveryRow DEF Row, Entry
<1> HIDE DEF f, said, d, r, c, P, m
<1>12. ASSUME NEW n \in DOMAIN said, what \in Unless(said[n] \in OptionValues(d(n)), n)
       PROVE  VeoExcused(what, vendor)
  <2>1. what = n /\ said[n] \notin OptionValues(d(n))
    BY <1>10, <1>12
  <2>2. n \in VeoNames /\ P[n] \in OptionValues(d(n))
    <3>1. n \in VeoNames /\ n \in {"durationSeconds", "aspectRatio", "resolution"}
      BY <1>9 DEF VeoNames
    <3> QED
      BY <1>1, <1>5, <3>1, VeoLegal
  <2>3. said[n] # P[n]
    BY <2>1, <2>2
  <2> QED
    BY <1>4, <1>9, <2>1, <2>3 DEF VeoExcused, Overrides
<1>13. ASSUME NEW i \in coupled, what \in i.about
       PROVE  VeoExcused(what, vendor)
  <2>1. i \in EvaluateCrossFieldConstraints(TableRules(m), said)
    BY <1>11, <1>13
  <2>2. i.about = {"resolution", "durationSeconds"} /\ said["resolution"] # P["resolution"]
    BY <1>1, <1>9, <2>1, VeoCouplings
  <2> QED
    BY <1>4, <1>9, <1>13, <2>2 DEF VeoExcused, Overrides
<1>14. countOK
  <2>1. Legal(d("count"), P["count"])
    BY <1>1, <1>5, VeoLegal DEF VeoNames
  <2> QED
    BY <1>4, <2>1
<1>15. ASSUME ~seedOK
       PROVE  VeoExcused("seed", vendor)
  BY <1>4, <1>15 DEF VeoExcused, Overrides
<1>16. ASSUME ~audioOK
       PROVE  VeoExcused("audio", vendor)
  <2>1. Legal(d("audio"), P["audio"])
    BY <1>1, <1>5, VeoLegal DEF VeoNames
  <2> QED
    BY <1>4, <1>16, <2>1 DEF VeoExcused
<1>17. o.drawing = {}
  BY DEF Fine, Drawn, Modern, Veos
<1>18. what \in large => what = "large image"
  BY <1>10
<1> HIDE DEF countOK, seedOK, audioOK, large, coupled
<1>19. VeoExcused(what, vendor)
  <2>1. CASE what \in Unless(countOK, "count")
    BY <1>10, <1>14, <2>1, Zenon
  <2>2. CASE what \in Unless(seedOK, "seed")
    BY <1>10, <1>15, <2>2, Zenon
  <2>3. CASE what \in Unless(audioOK, "audio")
    BY <1>10, <1>16, <2>3, Zenon
  <2>4. CASE what \in large
    BY <1>18, <2>4 DEF VeoExcused
  <2> QED
    BY <1>8, <1>12, <1>13, <2>1, <2>2, <2>3, <2>4, Zenon
<1> QED
  BY <1>17, <1>19


SeedanceNames == {"durationSeconds", "aspectRatio", "resolution", "audio", "count", "watermark"}

\* The parameters of an order for Seedance.
LEMMA SeedanceKeeps ==
    ASSUME "seedance" \in DOMAIN Catalog, NEW P, Kept("seedance", P)
    PROVE  /\ SeedanceNames \subseteq DOMAIN P
           /\ DOMAIN P \subseteq SeedanceNames \cup {"seed", "camera_fixed", "frames"}
           /\ NumberOf(P["durationSeconds"]) = P["durationSeconds"]
           /\ P["durationSeconds"].kind = "number" /\ P["durationSeconds"].tenths \in 10 .. 300
           /\ P["aspectRatio"].kind = "string" /\ P["resolution"].kind = "string"
<1> DEFINE m == "seedance"
<1>1. TableNames(m) = SeedanceNames \cup {"seed", "camera_fixed", "frames"}
  BY DEF TableNames, Veos, Seedreams, Modern, SeedanceNames
<1>2. SeedanceNames \subseteq DOMAIN P /\ DOMAIN P \subseteq SeedanceNames \cup {"seed", "camera_fixed", "frames"}
  BY <1>1 DEF Kept, Optional, SeedanceNames
<1>3. \A n \in SeedanceNames : /\ Legal(DescriptorIn(m, n), P[n]) /\ Proper(P[n])
                               /\ Tabled(m, DescriptorIn(m, n)) /\ Told(m, DescriptorIn(m, n)) /\ DescriptorIn(m, n).name = n
  BY <1>1, <1>2, DeclaredRow DEF Kept
<1>4. P["aspectRatio"].kind = "string" /\ P["resolution"].kind = "string"
  <2>1. \A n \in {"aspectRatio", "resolution"} : n \in SeedanceNames /\ TableType(m, n) = "enum"
    BY DEF TableType, SeedanceNames
  <2>2. \A n \in {"aspectRatio", "resolution"} : DescriptorIn(m, n).type = "enum"
    BY <1>3, <2>1 DEF Tabled
  <2> QED
    BY <1>3, <2>1, <2>2, LegalKind DEF KindOf
<1> DEFINE d == DescriptorIn(m, "durationSeconds")
           v == P["durationSeconds"]
<1>5. "durationSeconds" \in SeedanceNames /\ TableType(m, "durationSeconds") = "integer"
  BY DEF TableType, SeedanceNames
<1>6. d.type = "integer" /\ Between(d, 10, 300)
  BY <1>3, <1>5 DEF Tabled, Told
<1>7. Legal(d, v) /\ Proper(v)
  BY <1>3, <1>5
<1> HIDE DEF d, v
<1>8. v = Number(v.tenths) /\ v.tenths \in 10 .. 300
  BY <1>6, <1>7, LegalBetween
<1>9. v.kind = "number"
  BY <1>6, <1>7, LegalKind DEF KindOf
<1>10. NumberOf(v) = v
  BY <1>9, Zenon DEF NumberOf, IsNumber
<1> QED
  BY <1>2, <1>4, <1>8, <1>9, <1>10 DEF v

\* What Seedance is asked.
LEMMA SeedanceGiven ==
    ASSUME "seedance" \in DOMAIN Catalog, NEW P, Kept("seedance", P),
           NEW r, r.extra = VideoParameters(P), r.seconds = {NumberOf(P["durationSeconds"])},
           r.watermark = P["watermark"]
    PROVE  LET g == SeedanceSources(r)
           IN /\ DOMAIN g = {"generate_audio", "camera_fixed", "watermark", "seed", "resolution", "ratio", "duration", "frames"}
              /\ g["generate_audio"] = {P["audio"]} /\ g["camera_fixed"] = {} /\ g["watermark"] = {P["watermark"]}
              /\ g["seed"] = IF "seed" \in DOMAIN P THEN {P["seed"]} ELSE {}
              /\ g["resolution"] = {P["resolution"]} /\ g["ratio"] = {P["aspectRatio"]}
              /\ g["duration"] = {P["durationSeconds"]} /\ g["frames"] = {}
<1> DEFINE extra == r.extra
           either(a, b) == IF a \in DOMAIN extra THEN {extra[a]}
                           ELSE IF b \in DOMAIN extra THEN {extra[b]} ELSE {}
           only(n)      == either(n, n)
           else(s, t)   == IF s # {} THEN s ELSE t
           g            == SeedanceSources(r)
<1>1. SeedanceNames \subseteq DOMAIN P /\ DOMAIN P \subseteq SeedanceNames \cup {"seed", "camera_fixed", "frames"}
      /\ NumberOf(P["durationSeconds"]) = P["durationSeconds"]
  BY SeedanceKeeps
<1>2. extra = VideoParameters(P)
  OBVIOUS
<1>3. /\ \A n : n \in DOMAIN extra <=> n \in {"aspectRatio", "resolution", "audio"} \/ (n = "seed" /\ "seed" \in DOMAIN P)
      /\ \A n \in DOMAIN extra : extra[n] = P[n]
  BY <1>1, <1>2 DEF VideoParameters, SeedanceNames
<1>4. g = [generate_audio |-> either("generate_audio", "audio"),
           camera_fixed   |-> only("camera_fixed"),
           watermark      |-> else(only("watermark"), {r.watermark}),
           seed           |-> only("seed"),
           resolution     |-> only("resolution"),
           ratio          |-> either("ratio", "aspectRatio"),
           duration       |-> else(only("duration"), r.seconds),
           frames         |-> only("frames")]
  BY Zenon DEF SeedanceSources
<1> HIDE DEF extra
<1>5. /\ either("generate_audio", "audio") = {P["audio"]} /\ only("camera_fixed") = {} /\ only("watermark") = {}
      /\ only("seed") = IF "seed" \in DOMAIN P THEN {P["seed"]} ELSE {}
      /\ only("resolution") = {P["resolution"]} /\ either("ratio", "aspectRatio") = {P["aspectRatio"]}
      /\ only("duration") = {} /\ only("frames") = {}
  BY <1>3
<1>6. /\ else(only("watermark"), {r.watermark}) = {P["watermark"]}
      /\ else(only("duration"), r.seconds) = {P["durationSeconds"]}
  BY <1>1, <1>5
<1> HIDE DEF either, only, else, g
<1> QED
  BY <1>4, <1>5, <1>6 DEF g

\* Seedance refuses nothing of an order.
LEMMA SeedanceTakes ==
    ASSUME NEW o, Fine(o), o.model = "seedance"
    PROVE  SeedanceRefusals(BuildMediaRequest(o)) = {} /\ o.drawing = {}
<1> DEFINE r == BuildMediaRequest(o)
           P == o.parameters
           c == Catalog[r.model].parameters
           g == SeedanceSources(r)
           named == [n \in DOMAIN g |-> IF n = "generate_audio" THEN "audio" ELSE n]
           range(v) == IsNumber(v) /\ v.tenths \in 10 .. 300
           controls == {"generate_audio", "camera_fixed", "watermark", "seed", "frames"}
           fits(n) == \A v \in g[n] : Legal(Descriptor(c, named[n]), v)
           words == \A v \in g["resolution"] \cup g["ratio"] : v.kind = "string"
           lasts == \A v \in g["duration"] \cup r.seconds : range(v)
           counts == Legal(Descriptor(c, "count"), r.count)
           values == UNION {Unless(fits(n), n) : n \in controls}
<1>1. "seedance" \in DOMAIN Catalog /\ Kept("seedance", P)
  BY DEF Fine
<1>2. /\ SeedanceNames \subseteq DOMAIN P /\ NumberOf(P["durationSeconds"]) = P["durationSeconds"]
      /\ P["durationSeconds"].kind = "number" /\ P["durationSeconds"].tenths \in 10 .. 300
      /\ P["aspectRatio"].kind = "string" /\ P["resolution"].kind = "string"
  BY <1>1, SeedanceKeeps
<1>3. /\ r.model = "seedance" /\ r.count = P["count"] /\ r.extra = VideoParameters(P)
      /\ r.seconds = {NumberOf(P["durationSeconds"])} /\ r.watermark = P["watermark"]
  BY <1>2, RequestBuilt DEF SeedanceNames
<1>4. /\ DOMAIN g = {"generate_audio", "camera_fixed", "watermark", "seed", "resolution", "ratio", "duration", "frames"}
      /\ g["generate_audio"] = {P["audio"]} /\ g["camera_fixed"] = {} /\ g["watermark"] = {P["watermark"]}
      /\ g["seed"] = IF "seed" \in DOMAIN P THEN {P["seed"]} ELSE {}
      /\ g["resolution"] = {P["resolution"]} /\ g["ratio"] = {P["aspectRatio"]}
      /\ g["duration"] = {P["durationSeconds"]} /\ g["frames"] = {}
  <2> HIDE DEF r, P
  <2> QED
    BY <1>1, <1>3, SeedanceGiven
<1>5. SeedanceRefusals(r) = values \cup Unless(words, "resolution") \cup Unless(lasts, "duration") \cup Unless(counts, "count")
  BY Zenon DEF SeedanceRefusals
<1>6. \A n \in DOMAIN P : Legal(Descriptor(c, n), P[n])
  BY <1>1, <1>3 DEF Kept, DescriptorIn
<1>7. o.drawing = {}
  BY DEF Fine, Drawn, Modern
<1>8. named["generate_audio"] = "audio" /\ \A n \in controls : n # "generate_audio" => named[n] = n
  BY <1>4
<1> HIDE DEF c, P, g, r, named
<1>9. ASSUME NEW n \in controls
      PROVE  fits(n)
  BY <1>2, <1>4, <1>6, <1>8 DEF SeedanceNames
<1>10. words /\ counts
  BY <1>2, <1>3, <1>4, <1>6 DEF SeedanceNames
<1>11. lasts
  BY <1>2, <1>3, <1>4 DEF IsNumber
<1>12. \A b, n : b => Unless(b, n) = {}
  BY Zenon DEF Unless
<1> HIDE DEF controls, fits, words, counts, lasts
<1>13. values = {}
  <2>1. \A n \in controls : Unless(fits(n), n) = {}
    BY <1>9, <1>12, Zenon
  <2> QED
    BY <2>1
<1>14. Unless(words, "resolution") = {} /\ Unless(lasts, "duration") = {} /\ Unless(counts, "count") = {}
  BY <1>10, <1>11, <1>12, Zenon
<1> HIDE DEF values
<1> QED
  BY <1>5, <1>7, <1>13, <1>14 DEF r

-----------------------------------------------------------------------------
(* What each adapter sends of it.                                                 *)


\* What an order of a model may keep from the provider.
NotSentOf(m, P) ==
    IF m = "seedance" THEN {"count", "camera_fixed", "frames"}
    ELSE IF m \in Seedreams /\ P["count"] = Number(10) THEN {"count"} ELSE {}

\* The parameters of an order are the fields that were sent.
Reaches(m, P, fields, vendor) ==
    LET kept == DOMAIN P \ (NotSentOf(m, P) \cup Overrides(vendor))
    IN /\ \A n \in kept : WireName(m, n) \in DOMAIN fields /\ SameText(P[n], fields[WireName(m, n)])
       /\ \A f \in DOMAIN fields : f = "response_format" \/ \E n \in kept \cup Overrides(vendor) : f = WireName(m, n)

\* A credential with nothing but its secret decides nothing.
LEMMA NothingOverridden == Overrides(<<>>) = {}
BY DEF Overrides

\* A value is spelt as itself.
LEMMA SameAsItself == \A v : SameText(v, v)
BY DEF SameText

\* The names on the wire of the parameters of OpenAI.
LEMMA OpenAiNames ==
    ASSUME NEW m \in OpenAi
    PROVE  WireName(m, "count") = "n" /\ \A n : n \notin {"count", "audio"} => WireName(m, n) = n
<1>1. m # "seedance"
  BY DEF OpenAi
<1> QED
  BY <1>1, Zenon DEF WireName

\* The five fields of a model of OpenAI that a request may name freely.
LEMMA OpenAiSends ==
    ASSUME NEW m \in OpenAi, m \in DOMAIN Catalog, m # "dall-e-3", NEW P, Kept(m, P),
           NEW r, r.model = m, r.parameters = P, r.size = {P["size"]}, r.quality = {P["quality"]}, r.count = P["count"]
    PROVE  LET f == OpenAiFields(r)
           IN /\ \A n : n \in DOMAIN f <=> n = "n" \/ n \in DOMAIN P \ {"count"}
              /\ f["n"] = P["count"]
              /\ \A n \in DOMAIN P \ {"count"} : f[n] = P[n]
<1> DEFINE declared  == NamesOf(Catalog[r.model].parameters)
           chosen(n) == IF n \in DOMAIN r.parameters \cap declared THEN {r.parameters[n]} ELSE {}
           format    == IF "output_format" \notin declared THEN {}
                        ELSE IF chosen("output_format") # {} THEN chosen("output_format") ELSE OutputFormat.default
           lossy     == format \subseteq {Word("jpeg"), Word("webp")}
           size      == IF r.size = {} THEN {Size(1024, 1024)} ELSE r.size
           packed    == IF lossy THEN chosen("output_compression") ELSE {}
           values    == [size |-> size, quality |-> r.quality, n |-> {r.count}, output_format |-> format,
                         background |-> chosen("background"), output_compression |-> packed,
                         input_fidelity |-> chosen("input_fidelity")]
           f         == OpenAiFields(r)
           of(n)     == IF n \in DOMAIN P THEN {P[n]} ELSE {}
<1>1. f = Present(values)
  BY Zenon DEF OpenAiFields
<1>2. declared = TableNames(m)
  BY EveryRow DEF Row
<1>3. DOMAIN P \subseteq TableNames(m) /\ TableNames(m) \ {"output_compression"} \subseteq DOMAIN P
  <2>1. TableNames(m) \cap Optional = {}
    BY DEF TableNames, OpenAi, Modern, Optional
  <2> QED
    BY <2>1 DEF Kept
<1>4. TableNames(m) = {"size", "quality", "background", "output_format", "output_compression", "count"}
      \/ TableNames(m) = {"size", "quality", "input_fidelity", "count"}
  BY DEF TableNames, OpenAi, Modern
<1>5. \A n : chosen(n) = of(n)
  BY <1>2, <1>3
<1> HIDE DEF declared, chosen, f
<1>6. format = of("output_format")
  BY <1>2, <1>3, <1>4, <1>5
<1>7. size = {P["size"]}
  OBVIOUS
<1> HIDE DEF format, size
<1>8. packed = of("output_compression")
  <2>1. CASE "output_compression" \notin DOMAIN P
    BY <1>5, <2>1
  <2>2. CASE "output_compression" \in DOMAIN P
    <3> DEFINE d == DescriptorIn(m, "output_compression")
               v == P["output_format"]
    <3>1. "output_compression" \in TableNames(m) /\ IsParameterVisible(d, P)
      BY <2>2 DEF Kept
    <3>2. d.dependsOn = On("output_format", {Word("jpeg"), Word("webp")})
      <4>1. Tabled(m, d) /\ d.name = "output_compression"
        BY <3>1, DeclaredRow
      <4> QED
        BY <4>1, Zenon DEF Tabled
    <3> HIDE DEF d
    <3>3. "output_format" \in DOMAIN P /\ \E e \in {Word("jpeg"), Word("webp")} : SameText(e, v)
      BY <3>1, <3>2 DEF IsParameterVisible, On
    <3>4. DescriptorIn(m, "output_format").type = "enum" /\ Legal(DescriptorIn(m, "output_format"), v)
      <4>1. "output_format" \in TableNames(m) /\ Legal(DescriptorIn(m, "output_format"), v)
        BY <3>3 DEF Kept
      <4>2. DescriptorIn(m, "output_format").type = TableType(m, "output_format")
        <5>1. LET e == DescriptorIn(m, "output_format") IN Tabled(m, e) /\ e.name = "output_format"
          BY <4>1, DeclaredRow
        <5> QED
          BY <5>1, Zenon DEF Tabled
      <4>3. TableType(m, "output_format") = "enum"
        BY DEF TableType
      <4> QED
        BY <4>1, <4>2, <4>3
    <3>5. v.kind = "string"
      BY <3>4, LegalKind DEF KindOf
    <3>6. v \in {Word("jpeg"), Word("webp")}
      BY <3>3, <3>5, Kinds, SameString
    <3>7. lossy
      BY <1>6, <3>3, <3>6
    <3> QED
      BY <1>5, <3>7
  <2> QED
    BY <2>1, <2>2
<1> HIDE DEF packed, lossy
<1>14. of("size") = size /\ of("quality") = r.quality
  BY <1>3, <1>4, <1>7
<1>15. \A n : n \in DOMAIN P => of(n) = {P[n]} /\ of(n) # {}
  OBVIOUS
<1>16. \A n : n \notin DOMAIN P => of(n) = {}
  OBVIOUS
<1> HIDE DEF of
<1>9. /\ DOMAIN values = {"size", "quality", "n", "output_format", "background", "output_compression", "input_fidelity"}
      /\ values["n"] = {P["count"]}
      /\ \A n \in DOMAIN values \ {"n"} : values[n] = of(n)
  BY <1>5, <1>6, <1>8, <1>14
<1> HIDE DEF values
<1>10. /\ \A n : n \in DOMAIN f <=> n \in DOMAIN values /\ values[n] # {}
       /\ \A n \in DOMAIN values : \A v : values[n] = {v} => f[n] = v
  BY <1>1, PresentFields
<1>11. "n" \notin DOMAIN P /\ DOMAIN P \ {"count"} \subseteq DOMAIN values
  BY <1>3, <1>4, <1>9
<1>12. \A n : n \in DOMAIN f <=> n = "n" \/ n \in DOMAIN P \ {"count"}
  BY <1>9, <1>10, <1>11, <1>15, <1>16
<1>13. f["n"] = P["count"] /\ \A n \in DOMAIN P \ {"count"} : f[n] = P[n]
  <2>1. ASSUME NEW n \in DOMAIN P \ {"count"}
        PROVE  f[n] = P[n]
    <3>1. n \in DOMAIN values \ {"n"} /\ of(n) = {P[n]}
      BY <1>11, <1>15, <2>1
    <3>2. n \in DOMAIN values /\ values[n] = {P[n]}
      BY <1>9, <3>1
    <3> QED
      BY <1>10, <3>2, Zenon
  <2>2. f["n"] = P["count"]
    BY <1>9, <1>10
  <2> QED
    BY <2>1, <2>2
<1> QED
  BY <1>12, <1>13 DEF f


\* The parameters of an order reach OpenAI,
LEMMA OpenAiReaches ==
    ASSUME NEW o, Fine(o), o.model \in OpenAi
    PROVE  Reaches(o.model, o.parameters, OpenAiFields(BuildMediaRequest(o)), <<>>)
<1> DEFINE r == BuildMediaRequest(o)
           m == o.model
           P == o.parameters
           f == OpenAiFields(r)
           kept == DOMAIN P \ (NotSentOf(m, P) \cup Overrides(<<>>))
<1>1. m \in DOMAIN Catalog /\ Kept(m, P) /\ m \in OpenAi
  BY DEF Fine
<1>2. {"size", "quality", "count"} \subseteq DOMAIN P
  BY <1>1, OpenAiKeeps
<1>3. /\ r.model = m /\ r.images = o.images /\ r.parameters = P
      /\ r.size = {P["size"]} /\ r.quality = {P["quality"]} /\ r.count = P["count"]
  BY <1>2, RequestBuilt
<1>4. kept = DOMAIN P
  <2>1. NotSentOf(m, P) = {}
    BY <1>1 DEF NotSentOf, OpenAi, Seedreams
  <2> QED
    BY <2>1, NothingOverridden
<1>5. "audio" \notin DOMAIN P
  BY <1>1 DEF Kept, TableNames, OpenAi, Modern
<1>6. WireName(m, "count") = "n" /\ \A n : n \notin {"count", "audio"} => WireName(m, n) = n
  BY <1>1, OpenAiNames
<1> HIDE DEF r, m, P, f, kept
<1>7. CASE m # "dall-e-3"
  <2>1. /\ \A n : n \in DOMAIN f <=> n = "n" \/ n \in DOMAIN P \ {"count"}
        /\ f["n"] = P["count"]
        /\ \A n \in DOMAIN P \ {"count"} : f[n] = P[n]
    BY <1>1, <1>3, <1>7, OpenAiSends DEF f
  <2>2. ASSUME NEW n \in kept
        PROVE  WireName(m, n) \in DOMAIN f /\ SameText(P[n], f[WireName(m, n)])
    <3>1. CASE n = "count"
      BY <1>6, <2>1, <3>1, SameAsItself
    <3>2. CASE n # "count"
      BY <1>4, <1>5, <1>6, <2>1, <2>2, <3>2, SameAsItself
    <3> QED
      BY <3>1, <3>2
  <2>3. ASSUME NEW n \in DOMAIN f
        PROVE  \E k \in kept : n = WireName(m, k)
    BY <1>2, <1>4, <1>5, <1>6, <2>1
  <2> QED
    BY <2>2, <2>3 DEF Reaches, kept, f, r, m, P
<1>8. CASE m = "dall-e-3"
  <2> DEFINE size == IF r.size = {} THEN {Size(1024, 1024)} ELSE r.size
             format == IF r.images = <<>> THEN {Word("b64_json")} ELSE {}
             values == [size |-> size, quality |-> r.quality, n |-> {Number(10)}, response_format |-> format]
  <2>1. f = Present(values)
    BY <1>3, <1>8, Zenon DEF OpenAiFields, f
  <2>2. DOMAIN P = {"size", "quality", "count"}
    BY <1>1, <1>2, <1>8 DEF Kept, TableNames, Modern
  <2>3. P["count"] = Number(10)
    <3> DEFINE d == DescriptorIn(m, "count")
               v == P["count"]
    <3>1. "count" \in TableNames(m) /\ Legal(d, v) /\ Proper(v)
      BY <1>1, <2>2 DEF Kept
    <3>2. Tabled(m, d) /\ Told(m, d) /\ d.name = "count"
      BY <3>1, DeclaredRow, <1>1
    <3>3. Between(d, 10, 10)
      BY <1>8, <3>2, Zenon DEF Told
    <3>4. d.type = TableType(m, "count")
      BY <3>2, Zenon DEF Tabled
    <3>5. TableType(m, "count") = "integer"
      BY DEF TableType
    <3> HIDE DEF d, v
    <3>6. v = Number(v.tenths) /\ v.tenths \in 10 .. 10
      BY <3>1, <3>3, <3>4, <3>5, LegalBetween
    <3> QED
      BY <3>6 DEF v
  <2>4. size = {P["size"]}
    BY <1>3
  <2> HIDE DEF size, format
  <2>5. /\ DOMAIN values = {"size", "quality", "n", "response_format"}
        /\ values["size"] = {P["size"]} /\ values["quality"] = {P["quality"]} /\ values["n"] = {P["count"]}
    BY <1>3, <2>3, <2>4
  <2> HIDE DEF values
  <2>6. /\ \A n : n \in DOMAIN f <=> n \in DOMAIN values /\ values[n] # {}
        /\ \A n \in DOMAIN values : \A v : values[n] = {v} => f[n] = v
    BY <2>1, PresentFields
  <2>7. /\ {"size", "quality", "n"} \subseteq DOMAIN f /\ DOMAIN f \subseteq {"size", "quality", "n", "response_format"}
        /\ f["size"] = P["size"] /\ f["quality"] = P["quality"] /\ f["n"] = P["count"]
    BY <2>5, <2>6
  <2>8. ASSUME NEW n \in kept
        PROVE  WireName(m, n) \in DOMAIN f /\ SameText(P[n], f[WireName(m, n)])
    BY <1>4, <1>6, <2>2, <2>7, SameAsItself
  <2>9. ASSUME NEW n \in DOMAIN f
        PROVE  n = "response_format" \/ \E k \in kept : n = WireName(m, k)
    BY <1>4, <1>6, <2>2, <2>7
  <2> QED
    BY <2>8, <2>9 DEF Reaches, kept, f, r, m, P
<1> QED
  BY <1>7, <1>8 DEF r, m, P, f

\* they reach Seedream,
LEMMA SeedreamReaches ==
    ASSUME NEW o, Fine(o), o.model \in Seedreams
    PROVE  Reaches(o.model, o.parameters, SeedreamFields(BuildMediaRequest(o)), <<>>)
<1> DEFINE r == BuildMediaRequest(o)
           m == o.model
           P == o.parameters
           f == SeedreamFields(r)
           kept == DOMAIN P \ (NotSentOf(m, P) \cup Overrides(<<>>))
           size == IF r.size = {} THEN {Size(2048, 2048)} ELSE r.size
           many == IF r.count.tenths > 10 THEN {r.count} ELSE {}
           values == [size |-> size, response_format |-> {Word("url")}, watermark |-> {r.watermark}, max_images |-> many]
<1>1. m \in DOMAIN Catalog /\ Kept(m, P) /\ m \in Seedreams
  BY DEF Fine
<1>2. DOMAIN P = {"size", "count", "watermark"}
  BY <1>1, SeedreamKeeps
<1>3. /\ r.model = m /\ r.size = {P["size"]} /\ r.count = P["count"] /\ r.watermark = P["watermark"]
  BY <1>2, RequestBuilt
<1>4. f = Present(values)
  BY Zenon DEF SeedreamFields
<1>5. P["count"] = Number(P["count"].tenths) /\ P["count"].tenths \in 10 .. 40
  <2> DEFINE d == DescriptorIn(m, "count")
             v == P["count"]
  <2>1. "count" \in TableNames(m) /\ Legal(d, v) /\ Proper(v)
    BY <1>1, <1>2 DEF Kept
  <2>2. Tabled(m, d) /\ Told(m, d) /\ d.name = "count"
    BY <2>1, DeclaredRow, <1>1
  <2>3. m # "dall-e-3"
    BY <1>1 DEF Seedreams
  <2>4. Between(d, 10, 40)
    BY <2>2, <2>3, Zenon DEF Told
  <2>5. d.type = TableType(m, "count")
    BY <2>2, Zenon DEF Tabled
  <2>6. TableType(m, "count") = "integer"
    BY DEF TableType
  <2> HIDE DEF d, v
  <2> QED
    BY <2>1, <2>4, <2>5, <2>6, LegalBetween DEF v
<1>6. /\ kept = IF P["count"] = Number(10) THEN {"size", "watermark"} ELSE {"size", "count", "watermark"}
      /\ "seedance" # m
  <2>1. m # "seedance"
    BY <1>1 DEF Seedreams
  <2>2. NotSentOf(m, P) = IF P["count"] = Number(10) THEN {"count"} ELSE {}
    BY <1>1, <2>1 DEF NotSentOf
  <2> QED
    BY <1>2, <2>1, <2>2, NothingOverridden
<1>7. WireName(m, "count") = "max_images" /\ WireName(m, "size") = "size" /\ WireName(m, "watermark") = "watermark"
  <2>1. m \notin OpenAi /\ m \notin Veos
    BY <1>1 DEF Seedreams, OpenAi, Veos
  <2> QED
    BY <2>1, <1>6, Zenon DEF WireName
<1>8. many = IF P["count"] = Number(10) THEN {} ELSE {P["count"]}
  <2>1. P["count"] = Number(10) <=> P["count"].tenths = 10
    BY <1>5 DEF Number
  <2> HIDE DEF r, P
  <2> QED
    BY <1>3, <1>5, <2>1
<1>9. size = {P["size"]}
  BY <1>3
<1> HIDE DEF r, m, P, f, kept, size, many
<1>10. /\ DOMAIN values = {"size", "response_format", "watermark", "max_images"}
       /\ values["size"] = {P["size"]} /\ values["watermark"] = {P["watermark"]} /\ values["max_images"] = many
  BY <1>3, <1>9
<1> HIDE DEF values
<1>11. /\ \A n : n \in DOMAIN f <=> n \in DOMAIN values /\ values[n] # {}
       /\ \A n \in DOMAIN values : \A v : values[n] = {v} => f[n] = v
  BY <1>4, PresentFields
<1>12. /\ {"size", "watermark"} \subseteq DOMAIN f /\ DOMAIN f \subseteq {"size", "response_format", "watermark", "max_images"}
       /\ f["size"] = P["size"] /\ f["watermark"] = P["watermark"]
       /\ "max_images" \in DOMAIN f <=> P["count"] # Number(10)
       /\ P["count"] # Number(10) => f["max_images"] = P["count"]
  BY <1>8, <1>10, <1>11
<1>13. ASSUME NEW n \in kept
       PROVE  WireName(m, n) \in DOMAIN f /\ SameText(P[n], f[WireName(m, n)])
  BY <1>6, <1>7, <1>12, SameAsItself
<1>14. ASSUME NEW n \in DOMAIN f
       PROVE  n = "response_format" \/ \E k \in kept : n = WireName(m, k)
  BY <1>6, <1>7, <1>12
<1> QED
  BY <1>13, <1>14 DEF Reaches, kept, f, r, m, P


\* they reach Veo, but for what its credential decides,
LEMMA VeoReaches ==
    ASSUME NEW o, Fine(o), o.model \in Veos, NEW vendor
    PROVE  Reaches(o.model, o.parameters, VeoFields(BuildMediaRequest(o), vendor), vendor)
<1> DEFINE r == BuildMediaRequest(o)
           m == o.model
           P == o.parameters
           f == VeoFields(r, vendor)
           kept == DOMAIN P \ (NotSentOf(m, P) \cup Overrides(vendor))
<1>1. m \in DOMAIN Catalog /\ Kept(m, P) /\ m \in Veos
  BY DEF Fine
<1>2. DOMAIN P = VeoNames /\ \E w \in {"4", "6", "8"} : P["durationSeconds"] = Word(w)
  BY <1>1, VeoKeeps
<1>3. /\ r.model = m /\ r.images = o.images /\ r.count = P["count"] /\ r.extra = VideoParameters(P)
      /\ r.seconds = {NumberOf(P["durationSeconds"])}
  BY <1>2, RequestBuilt DEF VeoNames
<1>4. NotSentOf(m, P) = {} /\ m # "seedance" /\ m \notin OpenAi
  BY <1>1 DEF NotSentOf, Veos, Seedreams, OpenAi
<1>5. /\ WireName(m, "count") = "sampleCount" /\ WireName(m, "audio") = "generateAudio"
      /\ \A n : n \notin {"count", "audio"} => WireName(m, n) = n
  BY <1>1, <1>4, Zenon DEF WireName
<1> HIDE DEF r, P, m
<1>6. /\ DOMAIN f = {"durationSeconds", "aspectRatio", "resolution", "sampleCount", "generateAudio"}
                    \cup (DOMAIN vendor \cap {"seed"})
      /\ f.durationSeconds = NumberOf(P["durationSeconds"])
      /\ "aspectRatio" \notin DOMAIN vendor => f.aspectRatio = P["aspectRatio"]
      /\ "resolution" \notin DOMAIN vendor => f.resolution = P["resolution"]
      /\ f.sampleCount = P["count"]
      /\ "audio" \notin Overrides(vendor) => f.generateAudio = P["audio"]
  BY <1>1, <1>3, VeoAsks
<1>7. SameText(P["durationSeconds"], f.durationSeconds)
  <2>1. PICK w \in {"4", "6", "8"} : P["durationSeconds"] = Word(w)
    BY <1>2
  <2>2. StringOf(NumberOf(Word(w))) = Word(w)
    BY NumeralBack
  <2>3. StringOf(Word(w)) = Word(w)
    BY SaidAsItIs, Kinds
  <2>4. StringOf(P["durationSeconds"]) = StringOf(f.durationSeconds)
    BY <1>6, <2>1, <2>2, <2>3
  <2> QED
    BY <2>4, Zenon DEF SameText
<1>8. kept = VeoNames \ Overrides(vendor)
  BY <1>2, <1>4
<1>9. /\ Overrides(vendor) \subseteq {"aspectRatio", "resolution", "seed", "audio"}
      /\ \A n \in {"aspectRatio", "resolution", "seed"} : n \in Overrides(vendor) <=> n \in DOMAIN vendor
  BY DEF Overrides
<1> HIDE DEF f, kept
<1>10. ASSUME NEW n \in kept
       PROVE  WireName(m, n) \in DOMAIN f /\ SameText(P[n], f[WireName(m, n)])
  <2>1. n \in VeoNames /\ n \notin Overrides(vendor)
    BY <1>8, <1>10
  <2>2. CASE n = "count"
    BY <1>5, <1>6, <2>2, SameAsItself
  <2>3. CASE n = "audio"
    BY <1>5, <1>6, <2>1, <2>3, SameAsItself
  <2>4. CASE n \in {"aspectRatio", "resolution"}
    BY <1>5, <1>6, <1>9, <2>1, <2>4, SameAsItself
  <2>5. CASE n = "durationSeconds"
    BY <1>5, <1>6, <1>7, <2>5
  <2> QED
    BY <2>1, <2>2, <2>3, <2>4, <2>5 DEF VeoNames
<1>11. ASSUME NEW n \in DOMAIN f
       PROVE  \E k \in kept \cup Overrides(vendor) : n = WireName(m, k)
  <2>1. VeoNames \subseteq kept \cup Overrides(vendor)
    BY <1>8
  <2>2. \/ n \in {"durationSeconds", "aspectRatio", "resolution"}
        \/ n = "sampleCount" \/ n = "generateAudio" \/ (n = "seed" /\ "seed" \in Overrides(vendor))
    <3>1. "seed" \in DOMAIN vendor => "seed" \in Overrides(vendor)
      BY <1>9
    <3>2. n \in {"durationSeconds", "aspectRatio", "resolution", "sampleCount", "generateAudio"}
                    \cup (DOMAIN vendor \cap {"seed"})
      BY <1>6, <1>11, Zenon
    <3> DEFINE theirs == DOMAIN vendor
    <3> HIDE DEF theirs
    <3>3. n \in {"durationSeconds", "aspectRatio", "resolution", "sampleCount", "generateAudio"} \cup (theirs \cap {"seed"})
      BY <3>2 DEF theirs
    <3>4. n \in {"durationSeconds", "aspectRatio", "resolution", "sampleCount", "generateAudio"}
          \/ (n = "seed" /\ "seed" \in theirs)
      BY <3>3
    <3> QED
      BY <3>1, <3>4 DEF theirs
  <2> QED
    BY <1>5, <2>1, <2>2 DEF VeoNames
<1> QED
  BY <1>10, <1>11 DEF Reaches, kept, f, r, m, P

\* and they reach Seedance.
LEMMA SeedanceReaches ==
    ASSUME NEW o, Fine(o), o.model = "seedance"
    PROVE  Reaches(o.model, o.parameters, SeedanceFields(BuildMediaRequest(o)), <<>>)
<1> DEFINE r == BuildMediaRequest(o)
           m == "seedance"
           P == o.parameters
           g == SeedanceSources(r)
           f == SeedanceFields(r)
           kept == DOMAIN P \ (NotSentOf(m, P) \cup Overrides(<<>>))
<1>1. "seedance" \in DOMAIN Catalog /\ Kept("seedance", P)
  BY DEF Fine
<1>2. /\ SeedanceNames \subseteq DOMAIN P
      /\ DOMAIN P \subseteq SeedanceNames \cup {"seed", "camera_fixed", "frames"}
  BY <1>1, SeedanceKeeps
<1>3. /\ r.extra = VideoParameters(P)
      /\ r.seconds = {NumberOf(P["durationSeconds"])} /\ r.watermark = P["watermark"]
  BY <1>2, RequestBuilt DEF SeedanceNames
<1>4. kept = DOMAIN P \ {"count", "camera_fixed", "frames"}
  BY NothingOverridden DEF NotSentOf
<1>5. /\ WireName(m, "audio") = "generate_audio" /\ WireName(m, "aspectRatio") = "ratio"
      /\ WireName(m, "durationSeconds") = "duration"
      /\ \A n : n \notin {"count", "audio", "aspectRatio", "durationSeconds"} => WireName(m, n) = n
  <2>1. m \notin Veos
    BY DEF Veos
  <2> QED
    BY <2>1, Zenon DEF WireName
<1> HIDE DEF r, P
<1>6. /\ DOMAIN g = {"generate_audio", "camera_fixed", "watermark", "seed", "resolution", "ratio", "duration", "frames"}
      /\ g["generate_audio"] = {P["audio"]} /\ g["camera_fixed"] = {} /\ g["watermark"] = {P["watermark"]}
      /\ g["seed"] = IF "seed" \in DOMAIN P THEN {P["seed"]} ELSE {}
      /\ g["resolution"] = {P["resolution"]} /\ g["ratio"] = {P["aspectRatio"]}
      /\ g["duration"] = {P["durationSeconds"]} /\ g["frames"] = {}
  BY <1>1, <1>3, SeedanceGiven
<1> HIDE DEF g
<1>7. f = Present(g)
  BY Zenon DEF SeedanceFields, g
<1>8. /\ \A n : n \in DOMAIN f <=> n \in DOMAIN g /\ g[n] # {}
      /\ \A n \in DOMAIN g : \A v : g[n] = {v} => f[n] = v
  BY <1>7, PresentFields
<1> HIDE DEF f, kept
<1>9. \A n : n \in DOMAIN f => \/ n \in {"generate_audio", "watermark", "resolution", "ratio", "duration"}
                               \/ n = "seed" /\ "seed" \in DOMAIN P
  <2>1. ASSUME NEW n \in DOMAIN f
        PROVE  \/ n \in {"generate_audio", "watermark", "resolution", "ratio", "duration"}
               \/ n = "seed" /\ "seed" \in DOMAIN P
    <3>1. n \in DOMAIN g /\ g[n] # {}
      BY <1>8, <2>1
    <3> QED
      BY <1>6, <3>1
  <2> QED
    BY <2>1
<1>12. /\ {"generate_audio", "watermark", "resolution", "ratio", "duration"} \subseteq DOMAIN f
       /\ "seed" \in DOMAIN P => "seed" \in DOMAIN f
  BY <1>6, <1>8
<1>13. /\ f["generate_audio"] = P["audio"] /\ f["watermark"] = P["watermark"] /\ f["resolution"] = P["resolution"]
       /\ f["ratio"] = P["aspectRatio"] /\ f["duration"] = P["durationSeconds"]
       /\ "seed" \in DOMAIN P => f["seed"] = P["seed"]
  BY <1>6, <1>8
<1>10. ASSUME NEW n \in kept
       PROVE  WireName(m, n) \in DOMAIN f /\ SameText(P[n], f[WireName(m, n)])
  <2>1. \/ n \in {"audio", "aspectRatio", "durationSeconds", "resolution", "watermark"}
        \/ n = "seed" /\ "seed" \in DOMAIN P
    BY <1>2, <1>4, <1>10 DEF SeedanceNames
  <2>2. WireName(m, n) \in DOMAIN f /\ P[n] = f[WireName(m, n)]
    BY <1>5, <1>12, <1>13, <2>1
  <2> QED
    BY <2>2, Zenon DEF SameText
<1>11. ASSUME NEW n \in DOMAIN f
       PROVE  \E k \in kept : n = WireName(m, k)
  BY <1>2, <1>4, <1>5, <1>9 DEF SeedanceNames
<1> QED
  BY <1>10, <1>11 DEF Reaches, kept, f, r, P

-----------------------------------------------------------------------------
(* Where its images are.                                                          *)


\* Where an image is on the wire.
SpotsIn(places, i) ==
    UNION {{<<p, k>> : k \in {x \in DOMAIN places[p] : places[p][x] = i}} : p \in DOMAIN places}

\* Every image is at one of the places.
Partition(pl, images) ==
    /\ \A p \in DOMAIN pl : pl[p] \in SUBSET DOMAIN images
    /\ \A i \in DOMAIN images : \E p \in DOMAIN pl : i \in pl[p]
    /\ \A p, q \in DOMAIN pl : \A i \in DOMAIN images : i \in pl[p] /\ i \in pl[q] => p = q

\* Some places in their order: each is listed once, at its rank.
LEMMA InOrderAt ==
    ASSUME NEW P, P \subseteq Nat, IsFiniteSet(P)
    PROVE  /\ DOMAIN InOrder(P) = 1 .. Cardinality(P)
           /\ \A k \in DOMAIN InOrder(P) : InOrder(P)[k] \in P /\ Rank(P, InOrder(P)[k]) = k
           /\ \A i \in P : Rank(P, i) \in DOMAIN InOrder(P) /\ InOrder(P)[Rank(P, i)] = i
<1> DEFINE n == Cardinality(P)
           at(k) == CHOOSE i \in P : Rank(P, i) = k
           s == InOrder(P)
<1>1. /\ n \in Nat /\ \A i \in P : Rank(P, i) \in 1 .. n
      /\ \A i, j \in P : Rank(P, i) = Rank(P, j) => i = j
      /\ \A k \in 1 .. n : \E i \in P : Rank(P, i) = k
  BY RankOnto
<1>2. \A k \in 1 .. n : at(k) \in P /\ Rank(P, at(k)) = k
  BY <1>1
<1>3. s = [k \in 1 .. n |-> at(k)]
  BY DEF InOrder, Rank
<1> HIDE DEF n, at, s
<1>4. DOMAIN s = 1 .. n /\ \A k \in 1 .. n : s[k] = at(k)
  BY <1>3
<1>5. \A k \in DOMAIN s : s[k] \in P /\ Rank(P, s[k]) = k
  BY <1>2, <1>4
<1>6. \A i \in P : Rank(P, i) \in DOMAIN s /\ s[Rank(P, i)] = i
  BY <1>1, <1>2, <1>4
<1> QED
  BY <1>4, <1>5, <1>6 DEF s, n

\* The rank grows with the place.
LEMMA RankGrows ==
    ASSUME NEW P, P \subseteq Nat, IsFiniteSet(P), NEW i \in P, NEW j \in P, i < j
    PROVE  Rank(P, i) < Rank(P, j)
<1> DEFINE low == {h \in P : h <= i}
           high == {h \in P : h <= j}
<1>1. i \in Nat /\ j \in Nat /\ \A h \in P : h \in Nat
  OBVIOUS
<1>2. low \subseteq high /\ high \subseteq P
  <2>1. \A h \in P : h <= i => h <= j
    BY <1>1
  <2> QED
    BY <2>1
<1>3. IsFiniteSet(high)
  BY <1>2, FS_Subset
<1>4. Cardinality(low) <= Cardinality(high)
  BY <1>2, <1>3, FS_Subset
<1>5. Rank(P, i) <= Rank(P, j)
  BY <1>4 DEF Rank
<1>6. /\ Cardinality(P) \in Nat /\ Rank(P, i) \in 1 .. Cardinality(P) /\ Rank(P, j) \in 1 .. Cardinality(P)
      /\ Rank(P, i) = Rank(P, j) => i = j
  BY RankOnto
<1>7. i # j
  BY <1>1
<1> QED
  BY <1>5, <1>6, <1>7

\* An image that is at one place only is sent once, as the one that comes after those before it.
LEMMA OneSpot ==
    ASSUME NEW images, Len(images) \in Nat, DOMAIN images = 1 .. Len(images),
           NEW pl, Partition(pl, images), NEW p \in DOMAIN pl, NEW i \in pl[p]
    PROVE  SpotsIn([q \in DOMAIN pl |-> InOrder(pl[q])], i) = {<<p, Rank(pl[p], i)>>}
<1> DEFINE places == [q \in DOMAIN pl |-> InOrder(pl[q])]
           at(q) == {<<q, k>> : k \in {x \in DOMAIN places[q] : places[q][x] = i}}
<1>1. \A q \in DOMAIN pl : pl[q] \in SUBSET DOMAIN images /\ places[q] = InOrder(pl[q])
  BY DEF Partition
<1>2. DOMAIN places = DOMAIN pl /\ i \in DOMAIN images
  BY <1>1
<1> HIDE DEF places
<1>3. \A q \in DOMAIN pl : pl[q] \subseteq Nat /\ IsFiniteSet(pl[q])
  BY <1>1, FinitePlaces
<1>4. at(p) = {<<p, Rank(pl[p], i)>>}
  <2> DEFINE s == places[p]
             K == {x \in DOMAIN s : s[x] = i}
  <2>1. /\ \A k \in DOMAIN s : Rank(pl[p], s[k]) = k
        /\ Rank(pl[p], i) \in DOMAIN s /\ s[Rank(pl[p], i)] = i
    BY <1>1, <1>3, InOrderAt
  <2> HIDE DEF s
  <2>2. K = {Rank(pl[p], i)}
    BY <2>1
  <2> HIDE DEF K
  <2>3. at(p) = {<<p, k>> : k \in K}
    BY DEF K, s
  <2> QED
    BY <2>2, <2>3
<1>5. ASSUME NEW q \in DOMAIN pl, q # p
      PROVE  at(q) = {}
  <2>1. i \notin pl[q]
    BY <1>2, <1>5 DEF Partition
  <2>2. \A k \in DOMAIN places[q] : places[q][k] \in pl[q]
    BY <1>1, <1>3, InOrderAt
  <2>3. {x \in DOMAIN places[q] : places[q][x] = i} = {}
    BY <2>1, <2>2
  <2> QED
    BY <2>3
<1> HIDE DEF at
<1>6. UNION {at(q) : q \in DOMAIN places} = {<<p, Rank(pl[p], i)>>}
  BY <1>2, <1>4, <1>5
<1> QED
  BY <1>6 DEF SpotsIn, at, places

\* The images of an order are on the wire.
LEMMA ImagesPlaced ==
    ASSUME NEW images, Len(images) \in Nat, DOMAIN images = 1 .. Len(images),
           NEW pl, Partition(pl, images), NEW places, places = [q \in DOMAIN pl |-> InOrder(pl[q])]
    PROVE  /\ \A i \in DOMAIN images : Cardinality(SpotsIn(places, i)) = 1
           /\ \A i, j \in DOMAIN images : \A s \in SpotsIn(places, i), t \in SpotsIn(places, j) :
                  s[1] = t[1] /\ i < j => s[2] < t[2]
           /\ \A i \in DOMAIN images : \A s \in SpotsIn(places, i) : s[1] \in DOMAIN pl /\ i \in pl[s[1]]
<1>1. ASSUME NEW i \in DOMAIN images
      PROVE  \E p \in DOMAIN pl : i \in pl[p] /\ SpotsIn(places, i) = {<<p, Rank(pl[p], i)>>}
  <2>1. PICK p \in DOMAIN pl : i \in pl[p]
    BY DEF Partition
  <2>2. SpotsIn([q \in DOMAIN pl |-> InOrder(pl[q])], i) = {<<p, Rank(pl[p], i)>>}
    BY <2>1, OneSpot
  <2> QED
    BY <2>1, <2>2
<1>2. ASSUME NEW i \in DOMAIN images
      PROVE  Cardinality(SpotsIn(places, i)) = 1
  BY <1>1, FS_Singleton
<1>3. ASSUME NEW i \in DOMAIN images, NEW s \in SpotsIn(places, i)
      PROVE  s[1] \in DOMAIN pl /\ i \in pl[s[1]] /\ s[2] = Rank(pl[s[1]], i)
  <2>1. PICK p \in DOMAIN pl : i \in pl[p] /\ SpotsIn(places, i) = {<<p, Rank(pl[p], i)>>}
    BY <1>1
  <2>2. s = <<p, Rank(pl[p], i)>>
    BY <2>1
  <2> QED
    BY <2>1, <2>2
<1>4. ASSUME NEW i \in DOMAIN images, NEW j \in DOMAIN images, NEW s \in SpotsIn(places, i),
             NEW t \in SpotsIn(places, j), s[1] = t[1], i < j
      PROVE  s[2] < t[2]
  <2> DEFINE P == pl[s[1]]
  <2>1. s[1] \in DOMAIN pl /\ i \in P /\ j \in P /\ s[2] = Rank(P, i) /\ t[2] = Rank(P, j)
    BY <1>3, <1>4
  <2>2. P \subseteq Nat /\ IsFiniteSet(P)
    <3>1. P \in SUBSET DOMAIN images
      BY <2>1 DEF Partition
    <3> QED
      BY <3>1, FinitePlaces
  <2> HIDE DEF P
  <2> QED
    BY <1>4, <2>1, <2>2, RankGrows
<1> QED
  BY <1>2, <1>3, <1>4


PositionalOf(m, images) == m \in Veos /\ Cardinality(With(images, {"first_frame"})) # 1

\* The places of the images are those of their roles.
Roled(m, images, pl) == \A i \in DOMAIN images : \A p \in DOMAIN pl : i \in pl[p] => p = RolePlace(m, images[i].role)

\* The worker hands on the roles of the images, if there are any.
LEMMA RolesBuilt ==
    ASSUME NEW o, NEW m \in DOMAIN Catalog, Carried(m, o.images)
    PROVE  BuildMediaRequest(o).roles = IF o.images # <<>> /\ DOMAIN o.images # {} THEN {RolesOf(o.images)} ELSE {}
<1> DEFINE images == o.images
           roles == RolesOf(images)
<1>1. BuildMediaRequest(o).roles = IF roles # <<>> /\ Range(roles) \subseteq ForwardableInputRoles THEN {roles} ELSE {}
  BY DEF BuildMediaRequest, RolesOf
<1>2. DOMAIN roles = DOMAIN images /\ \A i \in DOMAIN images : roles[i] \in TableRoles(m)
  BY DEF RolesOf, Carried
<1>3. TableRoles(m) \subseteq ForwardableInputRoles
  BY DEF TableRoles, ForwardableInputRoles
<1> HIDE DEF roles, images
<1>4. Range(roles) \subseteq ForwardableInputRoles
  BY <1>2, <1>3 DEF Range
<1>5. ASSUME DOMAIN images = {}
      PROVE  roles = <<>>
  <2>1. roles = [i \in {} |-> images[i].role]
    BY <1>5 DEF roles, RolesOf
  <2>2. <<>> = [i \in {} |-> images[i].role]
    OBVIOUS
  <2> QED
    BY <2>1, <2>2
<1>6. ASSUME DOMAIN images # {}
      PROVE  roles # <<>> /\ images # <<>>
  BY <1>2, <1>6
<1> QED
  BY <1>1, <1>4, <1>5, <1>6 DEF roles, images

\* Every image of an order for OpenAI has one place, that of its role,
LEMMA OpenAiPartition ==
    ASSUME NEW m \in OpenAi, NEW r, NEW images, r.images = images
    PROVE  Partition(OpenAiPlaces(r), images) /\ Roled(m, images, OpenAiPlaces(r))
<1> DEFINE masks == With(images, {"mask"})
           pl == OpenAiPlaces(r)
<1>1. pl = [p \in {"image[]", "mask"} |-> IF p = "mask" THEN masks ELSE DOMAIN images \ masks]
  BY DEF OpenAiPlaces
<1>2. masks \subseteq DOMAIN images /\ \A i \in DOMAIN images : i \in masks <=> images[i].role = "mask"
  BY DEF With
<1>3. ASSUME NEW role
      PROVE  RolePlace(m, role) = IF role = "mask" THEN "mask" ELSE "image[]"
  <2>1. m \notin Seedreams /\ m \notin Veos
    BY DEF OpenAi, Seedreams, Veos
  <2> QED
    BY <2>1, Zenon DEF RolePlace
<1> HIDE DEF masks, pl
<1>4. DOMAIN pl = {"image[]", "mask"} /\ pl["mask"] = masks /\ pl["image[]"] = DOMAIN images \ masks
  BY <1>1
<1> QED
  BY <1>2, <1>3, <1>4 DEF Partition, Roled, pl

\* so has one for Seedream,
LEMMA SeedreamPartition ==
    ASSUME NEW m \in Seedreams, NEW r, NEW images, r.images = images
    PROVE  Partition(SeedreamPlaces(r), images) /\ Roled(m, images, SeedreamPlaces(r))
<1> DEFINE pl == SeedreamPlaces(r)
<1>1. DOMAIN pl = {"image"} /\ pl["image"] = DOMAIN images
  BY DEF SeedreamPlaces
<1>2. m \notin OpenAi /\ m \notin Veos
  BY DEF Seedreams, OpenAi, Veos
<1>3. ASSUME NEW role
      PROVE  RolePlace(m, role) = "image"
  BY <1>2, Zenon DEF RolePlace
<1> HIDE DEF pl
<1> QED
  BY <1>1, <1>3 DEF Partition, Roled, pl

\* so has one for Seedance,
LEMMA SeedancePartition ==
    ASSUME NEW o, o.model = "seedance", "seedance" \in DOMAIN Catalog, NEW images, o.images = images,
           Carried("seedance", images), NEW r, r = BuildMediaRequest(o)
    PROVE  Partition(SeedancePlaces(r), images) /\ Roled("seedance", images, SeedancePlaces(r))
<1> DEFINE last  == Len(r.images)
           roles == IF r.roles # {} THEN TheOnly(r.roles)
                    ELSE [i \in DOMAIN r.images |-> IF i \notin {1, last} \/ last = 1 THEN "reference_image"
                                             ELSE IF i = 1 THEN "first_frame" ELSE "last_frame"]
           pl == SeedancePlaces(r)
<1>1. pl = [role \in ForwardableInputRoles |-> {i \in DOMAIN r.images : roles[i] = role}]
  BY Zenon DEF SeedancePlaces
<1>2. r.images = images
  BY RequestBuilt
<1>3. r.roles = IF images # <<>> /\ DOMAIN images # {} THEN {RolesOf(images)} ELSE {}
  BY RolesBuilt
<1>4. \A i \in DOMAIN images : images[i].role \in ForwardableInputRoles
  <2>1. TableRoles("seedance") \subseteq ForwardableInputRoles
    BY DEF TableRoles, ForwardableInputRoles
  <2> QED
    BY <2>1 DEF Carried
<1>5. \A i \in DOMAIN images : roles[i] = images[i].role
  <2>1. SUFFICES ASSUME NEW i \in DOMAIN images
                 PROVE  roles[i] = images[i].role
    OBVIOUS
  <2>2. images # <<>> /\ DOMAIN images # {}
    OBVIOUS
  <2>3. roles = RolesOf(images)
    BY <1>3, <2>2, OnlyOne
  <2> QED
    BY <2>3 DEF RolesOf
<1>6. \A role : RolePlace("seedance", role) = role
  <2>1. "seedance" \notin OpenAi \cup Seedreams \cup Veos
    BY DEF OpenAi, Seedreams, Veos
  <2> QED
    BY <2>1, Zenon DEF RolePlace
<1> HIDE DEF pl, roles
<1>7. /\ DOMAIN pl = ForwardableInputRoles
      /\ \A p \in DOMAIN pl : pl[p] = {i \in DOMAIN images : images[i].role = p}
  BY <1>1, <1>2, <1>5
<1> QED
  BY <1>4, <1>6, <1>7 DEF Partition, Roled, pl

\* Roles are counted over the images,
LEMMA RoleCounted ==
    ASSUME NEW images, NEW role
    PROVE  Times(RolesOf(images), role) = Cardinality(With(images, {role}))
<1>1. {i \in DOMAIN RolesOf(images) : RolesOf(images)[i] = role} = With(images, {role})
  BY DEF With, RolesOf
<1> QED
  BY <1>1 DEF Times

\* and so has one for Veo, unless the order names no single first frame.
LEMMA VeoPartition ==
    ASSUME NEW o, NEW m \in Veos, o.model = m, m \in DOMAIN Catalog, NEW images, o.images = images,
           Carried(m, images), NEW r, r = BuildMediaRequest(o)
    PROVE  /\ Partition(VeoPlaces(r), images)
           /\ PositionalOf(m, images) \/ Roled(m, images, VeoPlaces(r))
<1> DEFINE counts == /\ r.roles # {}
                     /\ \A roles \in r.roles : /\ Range(roles) \subseteq {"first_frame", "last_frame", "reference_image"}
                                               /\ Times(roles, "first_frame") = 1 /\ Times(roles, "last_frame") <= 1
           pl == VeoPlaces(r)
           byRole == [image |-> With(images, {"first_frame"}), lastFrame |-> With(images, {"last_frame"}),
                      referenceImages |-> With(images, {"reference_image"})]
           byPlace == [image |-> DOMAIN images \cap {1}, lastFrame |-> DOMAIN images \cap {2},
                       referenceImages |-> DOMAIN images \ {1, 2}]
<1>1. r.images = images
  BY RequestBuilt
<1>2. pl = IF counts THEN byRole ELSE byPlace
  BY <1>1, Zenon DEF VeoPlaces
<1>3. TableRoles(m) = {"first_frame", "last_frame", "reference_image"}
  BY DEF TableRoles, Veos, Modern, Seedreams
<1>4. \A i \in DOMAIN images : images[i].role \in {"first_frame", "last_frame", "reference_image"}
  BY <1>3 DEF Carried
<1>5. ASSUME ~PositionalOf(m, images)
      PROVE  counts
  <2>1. Cardinality(With(images, {"first_frame"})) = 1
    BY <1>5 DEF PositionalOf
  <2>2. images # <<>> /\ DOMAIN images # {}
    <3>1. ASSUME DOMAIN images = {}
          PROVE  FALSE
      <4>1. With(images, {"first_frame"}) = {}
        BY <3>1 DEF With
      <4> QED
        BY <2>1, <4>1, FS_EmptySet
    <3> QED
      BY <3>1
  <2>3. r.roles = {RolesOf(images)}
    BY <2>2, RolesBuilt
  <2>4. Range(RolesOf(images)) \subseteq {"first_frame", "last_frame", "reference_image"}
    BY <1>4 DEF RolesOf, Range
  <2>5. Cardinality(With(images, {"last_frame"})) <= 1
    <3>1. TableMost(m, "last_frame") = 1
      BY DEF TableMost
    <3> QED
      BY <1>3, <3>1 DEF Carried
  <2>6. Times(RolesOf(images), "first_frame") = 1 /\ Times(RolesOf(images), "last_frame") <= 1
    BY <2>1, <2>5, RoleCounted
  <2> QED
    BY <2>3, <2>4, <2>6
<1>6. /\ RolePlace(m, "first_frame") = "image" /\ RolePlace(m, "last_frame") = "lastFrame"
      /\ RolePlace(m, "reference_image") = "referenceImages"
  <2>1. m \notin OpenAi \cup Seedreams
    BY DEF OpenAi, Seedreams, Veos
  <2>2. RolePlace(m, "first_frame") = "image"
    BY <2>1, Zenon DEF RolePlace
  <2>3. RolePlace(m, "last_frame") = "lastFrame"
    BY <2>1, Zenon DEF RolePlace
  <2>4. RolePlace(m, "reference_image") = "referenceImages"
    BY <2>1, Zenon DEF RolePlace
  <2> QED
    BY <2>2, <2>3, <2>4
<1> HIDE DEF counts, pl
<1>7. CASE counts
  <2>1. /\ DOMAIN pl = {"image", "lastFrame", "referenceImages"}
        /\ pl["image"] = With(images, {"first_frame"}) /\ pl["lastFrame"] = With(images, {"last_frame"})
        /\ pl["referenceImages"] = With(images, {"reference_image"})
    BY <1>2, <1>7
  <2> QED
    BY <1>4, <1>6, <2>1 DEF Partition, Roled, With, pl
<1>8. CASE ~counts
  <2>1. /\ DOMAIN pl = {"image", "lastFrame", "referenceImages"}
        /\ pl["image"] = DOMAIN images \cap {1} /\ pl["lastFrame"] = DOMAIN images \cap {2}
        /\ pl["referenceImages"] = DOMAIN images \ {1, 2}
    BY <1>2, <1>8
  <2>2. Partition(pl, images)
    BY <2>1 DEF Partition
  <2> QED
    BY <1>5, <1>8, <2>2 DEF pl
<1> QED
  BY <1>7, <1>8

\* So of every order.
LEMMA PlacesPartition ==
    ASSUME NEW o, Fine(o)
    PROVE  LET pl == PlacesOf(BuildMediaRequest(o))
           IN /\ Partition(pl, o.images)
              /\ PositionalOf(o.model, o.images) \/ Roled(o.model, o.images, pl)
<1> DEFINE m == o.model
           r == BuildMediaRequest(o)
           images == o.images
<1>1. m \in DOMAIN Catalog /\ Carried(m, images) /\ r.images = images /\ r.model = m
  BY RequestBuilt DEF Fine
<1>2. m \in OpenAi \cup Seedreams \cup Veos \cup {"seedance"}
  BY <1>1 DEF Catalog, OpenAi, Seedreams, Veos
<1> HIDE DEF m, r, images
<1>3. /\ m \in OpenAi => PlacesOf(r) = OpenAiPlaces(r)
      /\ m \in Seedreams => PlacesOf(r) = SeedreamPlaces(r)
      /\ m \in Veos => PlacesOf(r) = VeoPlaces(r)
      /\ m = "seedance" => PlacesOf(r) = SeedancePlaces(r)
  <2>1. ASSUME r.model \in OpenAi
        PROVE  PlacesOf(r) = OpenAiPlaces(r)
    <3>1. r.model \notin Seedreams /\ r.model \notin Veos
      BY <2>1 DEF OpenAi, Seedreams, Veos
    <3> QED
      BY <2>1, <3>1, Zenon DEF PlacesOf
  <2>2. /\ m \in Seedreams => m \notin OpenAi
        /\ m \in Veos => m \notin OpenAi \cup Seedreams
        /\ m = "seedance" => m \notin OpenAi \cup Seedreams \cup Veos
    BY DEF OpenAi, Seedreams, Veos
  <2>3. m \in Seedreams => PlacesOf(r) = SeedreamPlaces(r)
    BY <1>1, <2>2, Zenon DEF PlacesOf
  <2>4. m \in Veos => PlacesOf(r) = VeoPlaces(r)
    BY <1>1, <2>2, Zenon DEF PlacesOf
  <2>5. m = "seedance" => PlacesOf(r) = SeedancePlaces(r)
    BY <1>1, <2>2, Zenon DEF PlacesOf
  <2> QED
    BY <1>1, <2>1, <2>3, <2>4, <2>5
<1>4. CASE m \in OpenAi
  BY <1>1, <1>3, <1>4, OpenAiPartition DEF m, r, images
<1>5. CASE m \in Seedreams
  BY <1>1, <1>3, <1>5, SeedreamPartition DEF m, r, images
<1>6. CASE m \in Veos
  BY <1>1, <1>3, <1>6, VeoPartition DEF m, r, images
<1>7. CASE m = "seedance"
  BY <1>1, <1>3, <1>7, SeedancePartition DEF m, r, images
<1> QED
  BY <1>2, <1>4, <1>5, <1>6, <1>7

-----------------------------------------------------------------------------
(* What was drawn, and the hole in the mask.                                       *)


\* The pixels from low on and below high are those of a drag from one coordinate by so much.
Covers(from, by, low, high, most) ==
    LET near == IF by < 0 THEN from + by ELSE from
        far  == near + Abs(by)
    IN \A p \in 0 .. most - 1 :
           /\ (2 * p >= near /\ 2 * p + 2 <= far) => p \in low .. high - 1
           /\ p \in low .. high - 1 => (2 * p + 2 > near /\ 2 * p < far)

\* Where a coordinate is cut: in the image, and at most half a pixel away.
LEMMA CutBetween ==
    ASSUME NEW v \in Int, NEW most \in Nat
    PROVE  /\ CutAt(v, most) \in 0 .. most
           /\ v \in 0 .. 2 * most => 2 * CutAt(v, most) \in {v, v + 1}
           /\ v < 0 => CutAt(v, most) = 0
           /\ v > 2 * most => CutAt(v, most) = most
<1>1. \A c \in Nat : (c + 1) \div 2 \in Nat /\ 2 * ((c + 1) \div 2) \in {c, c + 1}
  OBVIOUS
<1>2. CASE v \in 0 .. 2 * most
  BY <1>1, <1>2 DEF CutAt
<1>3. CASE v < 0
  BY <1>3 DEF CutAt
<1>4. CASE v > 2 * most
  <2>1. (2 * most + 1) \div 2 = most
    OBVIOUS
  <2> QED
    BY <1>4, <2>1 DEF CutAt
<1> QED
  BY <1>2, <1>3, <1>4

\* A pixel lies between the cuts if it was drawn over as a whole, and only if it was touched.
LEMMA CutsCover ==
    ASSUME NEW from \in Int, NEW by \in Int, NEW most \in Nat, NEW low, NEW high,
           low = CutAt(IF by < 0 THEN from + by ELSE from, most),
           high = CutAt(IF by < 0 THEN from ELSE from + by, most)
    PROVE  low \in 0 .. most /\ high \in 0 .. most /\ Covers(from, by, low, high, most)
<1> DEFINE near == IF by < 0 THEN from + by ELSE from
           far  == IF by < 0 THEN from ELSE from + by
<1>1. near \in Int /\ far \in Int /\ near <= far /\ far = near + Abs(by)
  BY DEF Abs
<1>2. low = CutAt(near, most) /\ high = CutAt(far, most)
  OBVIOUS
<1> HIDE DEF near, far
<1>3. /\ low \in 0 .. most
      /\ near \in 0 .. 2 * most => 2 * low \in {near, near + 1}
      /\ near < 0 => low = 0
      /\ near > 2 * most => low = most
  BY <1>1, <1>2, CutBetween
<1>4. /\ high \in 0 .. most
      /\ far \in 0 .. 2 * most => 2 * high \in {far, far + 1}
      /\ far < 0 => high = 0
      /\ far > 2 * most => high = most
  BY <1>1, <1>2, CutBetween
<1>5. ASSUME NEW p \in 0 .. most - 1
      PROVE  /\ (2 * p >= near /\ 2 * p + 2 <= far) => p \in low .. high - 1
             /\ p \in low .. high - 1 => (2 * p + 2 > near /\ 2 * p < far)
  BY <1>1, <1>3, <1>4
<1> QED
  BY <1>1, <1>3, <1>4, <1>5 DEF Covers, near

\* So of the whole rectangle.
LEMMA RegionCovers ==
    ASSUME NEW d \in Drawings, NEW h \in ClampEditSelection(d, d.geometry[1], d.geometry[2])
    PROVE  /\ 0 <= h.left /\ h.right <= d.geometry[1] /\ 0 <= h.top /\ h.bottom <= d.geometry[2]
           /\ Covers(d.x, d.width, h.left, h.right, d.geometry[1])
           /\ Covers(d.y, d.height, h.top, h.bottom, d.geometry[2])
<1> DEFINE near(from, by) == IF by < 0 THEN from + by ELSE from
           far(from, by)  == IF by < 0 THEN from ELSE from + by
<1>1. /\ d.x \in Int /\ d.y \in Int /\ d.width \in Int /\ d.height \in Int
      /\ d.geometry[1] \in Nat /\ d.geometry[2] \in Nat
  BY WireAssumption
<1>2. /\ h.left = CutAt(near(d.x, d.width), d.geometry[1])
      /\ h.right = CutAt(far(d.x, d.width), d.geometry[1])
      /\ h.top = CutAt(near(d.y, d.height), d.geometry[2])
      /\ h.bottom = CutAt(far(d.y, d.height), d.geometry[2])
  BY DEF ClampEditSelection
<1>3. h.left \in 0 .. d.geometry[1] /\ h.right \in 0 .. d.geometry[1]
      /\ Covers(d.x, d.width, h.left, h.right, d.geometry[1])
  BY <1>1, <1>2, CutsCover
<1>4. h.top \in 0 .. d.geometry[2] /\ h.bottom \in 0 .. d.geometry[2]
      /\ Covers(d.y, d.height, h.top, h.bottom, d.geometry[2])
  BY <1>1, <1>2, CutsCover
<1> QED
  BY <1>1, <1>3, <1>4

\* A rectangle that was stored was drawn, and its hole is what was made of it.
DrawingsCut ==
    phase # "form" => \A e \in order.drawing :
        /\ e.drawn \in Drawings
        /\ e.hole \in ClampEditSelection(e.drawn, e.drawn.geometry[1], e.drawn.geometry[2])

\* Every step keeps what was drawn and what was cut of it.
LEMMA DrawingsCutNext ==
    ASSUME DrawingsCut, [WireNext]_wireVars
    PROVE  DrawingsCut'
<1>1. ASSUME NEW m \in DOMAIN Catalog, NEW raw, NEW images, Admit(m, raw, images)
      PROVE  DrawingsCut'
  <2>1. order'.drawing = {}
    BY <1>1 DEF Admit, Store
  <2> QED
    BY <2>1 DEF DrawingsCut
<1>2. ASSUME NEW m \in DOMAIN Catalog, NEW raw, NEW drawing \in Drawings, EditImage(m, raw, drawing)
      PROVE  DrawingsCut'
  <2> DEFINE region == ClampEditSelection(drawing, drawing.geometry[1], drawing.geometry[2])
  <2> HIDE DEF region
  <2>1. region # {} /\ order'.drawing = {[drawn |-> drawing, hole |-> TheOnly(region)]}
    BY <1>2 DEF EditImage, Store, EditSource, region
  <2>2. TheOnly(region) \in region
    BY <2>1 DEF TheOnly
  <2> QED
    BY <2>1, <2>2 DEF DrawingsCut, region
<1>3. ASSUME UNCHANGED order, phase # "form"
      PROVE  DrawingsCut'
  BY <1>3 DEF DrawingsCut
<1>4. ASSUME NEW vendor, SubmitOrder(vendor)
      PROVE  DrawingsCut'
  BY <1>3, <1>4 DEF SubmitOrder
<1>5. ASSUME NEW items, AnswerOrder(items)
      PROVE  DrawingsCut'
  BY <1>3, <1>5 DEF AnswerOrder
<1>6. CASE UNCHANGED wireVars
  BY <1>6 DEF DrawingsCut, wireVars
<1> QED
  BY <1>1, <1>2, <1>4, <1>5, <1>6 DEF WireNext

\* So the hole is what was drawn.
LEMMA HoleIsDrawn ==
    ASSUME DrawingsCut, phase # "form"
    PROVE  MaskAsDrawn
<1> SUFFICES ASSUME NEW e \in order.drawing
             PROVE  LET d == e.drawn
                        h == e.hole
                    IN /\ 0 <= h.left /\ h.right <= d.geometry[1] /\ 0 <= h.top /\ h.bottom <= d.geometry[2]
                       /\ Covers(d.x, d.width, h.left, h.right, d.geometry[1])
                       /\ Covers(d.y, d.height, h.top, h.bottom, d.geometry[2])
  BY Zenon DEF MaskAsDrawn, Covers
<1> QED
  BY RegionCovers DEF DrawingsCut

-----------------------------------------------------------------------------
(* The inductive invariant, action by action.                                      *)


\* The values a request may give are proper ones,
LEMMA RawsProper ==
    ASSUME NEW m \in DOMAIN Catalog, NEW raw \in Raws(m)
    PROVE  \A n \in DOMAIN raw : Proper(raw[n])
<1>1. ASSUME NEW a \in Givable(m)
      PROVE  Proper(a[2])
  <2>1. PICK n \in DOMAIN Offers : \E v \in Offers[n] : a = <<n, v>>
    BY DEF Givable
  <2>2. PICK v \in Offers[n] : a = <<n, v>>
    BY <2>1
  <2>3. a[2] = v /\ (IsNumber(v) => v.tenths \in Int /\ v = Number(v.tenths))
    BY <2>2, WireAssumption
  <2> QED
    BY <2>3 DEF Proper
<1>2. CASE raw = <<>>
  BY <1>2
<1>3. ASSUME NEW a \in Givable(m), NEW b \in Givable(m), raw = Giving(a, b)
      PROVE  \A n \in DOMAIN raw : Proper(raw[n])
  BY <1>1, <1>3 DEF Giving
<1> QED
  BY <1>2, <1>3 DEF Raws

\* and so are those of a masked edit.
LEMMA EditProper ==
    ASSUME NEW raw, \A n \in DOMAIN raw : Proper(raw[n]), NEW size
    PROVE  LET given == Over([size |-> size, count |-> Number(10)], raw)
           IN \A n \in DOMAIN given : n = "size" \/ Proper(given[n])
<1> DEFINE put == [size |-> size, count |-> Number(10)]
           given == Over(put, raw)
<1>1. DOMAIN put = {"size", "count"} /\ put["count"] = Number(10)
  OBVIOUS
<1> HIDE DEF put
<1>2. Proper(Number(10))
  BY DEF Proper, Number
<1>3. DOMAIN given = DOMAIN put \cup DOMAIN raw
      /\ \A n \in DOMAIN given : given[n] = IF n \in DOMAIN put THEN put[n] ELSE raw[n]
  BY DEF Over
<1> HIDE DEF given
<1>4. \A n \in DOMAIN given : n = "size" \/ Proper(given[n])
  BY <1>1, <1>2, <1>3
<1> QED
  BY <1>4 DEF given, put

\* What the API stores is an order it may stand by.
LEMMA StoreFine ==
    ASSUME NEW m \in DOMAIN Catalog, NEW raw, NEW images, NEW drawing, Store(m, raw, images, drawing),
           \A n \in DOMAIN raw : n = "size" \/ Proper(raw[n]), Len(images) \in Nat, DOMAIN images = 1 .. Len(images)
    PROVE  /\ phase' = "queued" /\ order'.model = m /\ order'.images = images /\ order'.drawing = drawing
           /\ Kept(m, order'.parameters) /\ Carried(m, images)
<1>1. /\ ValidateGenerationRequest(Published[m], raw, RolesOf(images)) = {}
      /\ order' = [model |-> m, parameters |-> NormalizedParameters(Published[m], raw),
                   images |-> images, drawing |-> drawing]
      /\ phase' = "queued"
  BY DEF Store, RolesOf
<1>2. /\ order'.model = m /\ order'.images = images /\ order'.drawing = drawing
      /\ order'.parameters = NormalizedParameters(Published[m], raw)
  BY <1>1
<1>3. Kept(m, order'.parameters) /\ InputRefusals(Published[m], RolesOf(images)) = {}
  BY <1>1, <1>2, StoredKept
<1>4. Carried(m, images)
  BY <1>3, ImagesCarried
<1> QED
  BY <1>1, <1>2, <1>3, <1>4

\* An order that is admitted is fine,
LEMMA AdmitFine ==
    ASSUME NEW m \in DOMAIN Catalog, NEW raw \in Raws(m), NEW images \in Stagings, Admit(m, raw, images)
    PROVE  phase' = "queued" /\ Fine(order')
<1>1. Store(m, raw, images, {})
  BY DEF Admit
<1>2. Len(images) \in Nat /\ DOMAIN images = 1 .. Len(images)
  BY WireAssumption
<1>3. \A n \in DOMAIN raw : n = "size" \/ Proper(raw[n])
  BY RawsProper
<1>4. /\ phase' = "queued" /\ order'.model = m /\ order'.images = images /\ order'.drawing = {}
      /\ Kept(m, order'.parameters) /\ Carried(m, images)
  BY <1>1, <1>2, <1>3, StoreFine
<1> QED
  BY <1>4 DEF Fine

\* and so is a masked edit.
LEMMA EditImageFine ==
    ASSUME NEW m \in DOMAIN Catalog, NEW raw \in Raws(m), NEW drawing \in Drawings, EditImage(m, raw, drawing)
    PROVE  phase' = "queued" /\ Fine(order')
<1> DEFINE source == EditSource(drawing)
           images == <<source, EditMask(source)>>
<1>1. PICK size, cut : Store(m, Over([size |-> size, count |-> Number(10)], raw), images, cut)
  BY DEF EditImage
<1>2. Len(images) \in Nat /\ DOMAIN images = 1 .. Len(images)
  OBVIOUS
<1> DEFINE given == Over([size |-> size, count |-> Number(10)], raw)
<1>3. \A n \in DOMAIN given : n = "size" \/ Proper(given[n])
  BY RawsProper, EditProper
<1> HIDE DEF given, images
<1>4. /\ phase' = "queued" /\ order'.model = m /\ order'.images = images
      /\ Kept(m, order'.parameters) /\ Carried(m, images)
  BY <1>1, <1>2, <1>3, StoreFine DEF given, images
<1>5. m \in Modern
  <2>1. ~Published[m].video /\ \E s \in Range(Published[m].inputSlots) : s.role = "mask"
    BY DEF EditImage
  <2>2. /\ Published[m].inputSlots = TableSlots(m) /\ SlotsAre(TableSlots(m), m)
        /\ Published[m].video <=> m \in Veos \cup {"seedance"}
    BY PublishedRow, SlotTable
  <2>3. "mask" \in TableRoles(m)
    <3>1. PICK i \in DOMAIN TableSlots(m) : TableSlots(m)[i].role = "mask"
      BY <2>1, <2>2 DEF Range
    <3> QED
      BY <2>2, <3>1 DEF SlotsAre
  <2>4. m \in Modern \cup {"gpt-image-1.5", "dall-e-3"} \cup Seedreams \cup Veos \cup {"seedance"}
    BY SMT DEF Catalog, Modern, Seedreams, Veos
  <2> QED
    BY <2>1, <2>2, <2>3, <2>4 DEF TableRoles
<1>6. Drawn(order')
  BY <1>4, <1>5 DEF Drawn, images
<1> QED
  BY <1>4, <1>6 DEF Fine

-----------------------------------------------------------------------------
\* What the adapter was given, and what it made of it.
SentOf(v) == order.model \in Veos \/ v = <<>>

TurnedDown ==
    \E v \in VendorExtras :
        /\ SentOf(v) /\ RefusalsOf(BuildMediaRequest(order), v) # {}
        /\ sent = [refusals |-> RefusalsOf(BuildMediaRequest(order), v), vendor |-> v]

Asked ==
    \E v \in VendorExtras :
        /\ SentOf(v) /\ RefusalsOf(BuildMediaRequest(order), v) = {}
        /\ sent = WireOf(BuildMediaRequest(order), v)

WireInv ==
    /\ phase # "form" => Fine(order)
    /\ phase = "refused" => TurnedDown
    /\ phase \in {"sent", "imported", "failed"} => Asked
    /\ AnsweredIsImported

\* To submit an order keeps the invariant.
LEMMA SubmitKeeps ==
    ASSUME WireInv, NEW v \in VendorExtras, order.model \in Veos \/ v = <<>>, SubmitOrder(v)
    PROVE  WireInv'
<1> DEFINE r == BuildMediaRequest(order)
           turned == RefusalsOf(r, v)
<1>1. /\ phase = "queued" /\ order' = order
      /\ phase' = (IF turned = {} THEN "sent" ELSE "refused")
      /\ sent' = (IF turned = {} THEN WireOf(r, v) ELSE [refusals |-> turned, vendor |-> v])
  BY DEF SubmitOrder
<1>2. Fine(order) /\ SentOf(v)
  BY <1>1 DEF WireInv, SentOf
<1> HIDE DEF turned
<1>3. AnsweredIsImported'
  BY <1>1 DEF AnsweredIsImported
<1>4. CASE turned = {}
  <2>1. Asked'
    BY <1>1, <1>2, <1>4 DEF Asked, SentOf, turned
  <2> QED
    BY <1>1, <1>2, <1>3, <1>4, <2>1 DEF WireInv
<1>5. CASE turned # {}
  <2>1. TurnedDown'
    BY <1>1, <1>2, <1>5 DEF TurnedDown, SentOf, turned
  <2> QED
    BY <1>1, <1>2, <1>3, <1>5, <2>1 DEF WireInv
<1> QED
  BY <1>4, <1>5


\* From one to four images are ordered, and as many are asked for.
LEMMA CountOrdered ==
    ASSUME NEW o, Fine(o), o.model \in OpenAi \cup Seedreams
    PROVE  /\ BuildMediaRequest(o).count = o.parameters["count"]
           /\ o.parameters["count"].tenths \div 10 \in 1 .. 4
<1> DEFINE m == o.model
           P == o.parameters
           d == DescriptorIn(m, "count")
           v == P["count"]
<1>1. m \in DOMAIN Catalog /\ Kept(m, P)
  BY DEF Fine
<1>2. "count" \in DOMAIN P
  BY <1>1, OpenAiKeeps, SeedreamKeeps
<1>3. "count" \in TableNames(m) /\ Legal(d, v) /\ Proper(v)
  BY <1>1, <1>2 DEF Kept
<1>4. Tabled(m, d) /\ Told(m, d) /\ d.name = "count"
  BY <1>1, <1>3, DeclaredRow
<1>5. Between(d, 10, IF m = "dall-e-3" THEN 10 ELSE 40)
  BY <1>4, Zenon DEF Told
<1>6. d.type = "integer"
  <2>1. d.type = TableType(m, "count")
    BY <1>4, Zenon DEF Tabled
  <2>2. TableType(m, "count") = "integer"
    BY DEF TableType
  <2> QED
    BY <2>1, <2>2
<1>7. BuildMediaRequest(o).count = v
  BY <1>2, RequestBuilt
<1> HIDE DEF m, P, d, v
<1>8. v.tenths \in 10 .. 40
  <2>1. v.tenths \in 10 .. (IF m = "dall-e-3" THEN 10 ELSE 40)
    BY <1>3, <1>5, <1>6, LegalBetween
  <2> QED
    BY <2>1
<1>9. v.tenths \div 10 \in 1 .. 4
  BY <1>8
<1> QED
  BY <1>7, <1>9 DEF v, P

\* A format that is no lossy one is png.
LEMMA FormatAsked ==
    ASSUME NEW o, Fine(o), o.model \in OpenAi, NEW f, f = OpenAiFields(BuildMediaRequest(o)),
           "output_format" \in DOMAIN f, f["output_format"] \notin {Word("jpeg"), Word("webp")}
    PROVE  f["output_format"].word = "png"
<1> DEFINE m == o.model
           P == o.parameters
           r == BuildMediaRequest(o)
           d == DescriptorIn(m, "output_format")
           v == P["output_format"]
<1>1. m \in DOMAIN Catalog /\ Kept(m, P) /\ m \in OpenAi
  BY DEF Fine
<1>2. {"size", "quality", "count"} \subseteq DOMAIN P
  BY <1>1, OpenAiKeeps
<1>3. /\ r.model = m /\ r.images = o.images /\ r.parameters = P
      /\ r.size = {P["size"]} /\ r.quality = {P["quality"]} /\ r.count = P["count"]
  BY <1>2, RequestBuilt
<1> HIDE DEF m, P, r
<1>4. m # "dall-e-3"
  <2>1. SUFFICES ASSUME m = "dall-e-3"
                 PROVE  FALSE
    OBVIOUS
  <2> DEFINE values == [size |-> IF r.size = {} THEN {Size(1024, 1024)} ELSE r.size, quality |-> r.quality,
                        n |-> {Number(10)},
                        response_format |-> IF r.images = <<>> THEN {Word("b64_json")} ELSE {}]
  <2>2. OpenAiFields(r) = Present(values)
    BY <1>3, <2>1, Zenon DEF OpenAiFields
  <2>3. "output_format" \notin DOMAIN values
    OBVIOUS
  <2> HIDE DEF values
  <2> QED
    BY <2>2, <2>3, PresentFields DEF r
<1>5. /\ \A n : n \in DOMAIN f <=> n = "n" \/ n \in DOMAIN P \ {"count"}
      /\ \A n \in DOMAIN P \ {"count"} : f[n] = P[n]
  BY <1>1, <1>3, <1>4, OpenAiSends DEF r
<1>6. "output_format" \in DOMAIN P /\ f["output_format"] = v
  BY <1>5
<1>7. "output_format" \in TableNames(m) /\ Legal(d, v)
  BY <1>1, <1>6 DEF Kept
<1>8. Tabled(m, d) /\ Told(m, d) /\ d.name = "output_format"
  BY <1>1, <1>7, DeclaredRow
<1>9. d.options = Words(<<"png", "jpeg", "webp">>)
  BY <1>8, Zenon DEF Told
<1>10. d.type = "enum"
  <2>1. d.type = TableType(m, "output_format")
    BY <1>8, Zenon DEF Tabled
  <2>2. TableType(m, "output_format") = "enum"
    BY DEF TableType
  <2> QED
    BY <2>1, <2>2
<1> HIDE DEF d, v
<1>11. v \in OptionValues(d)
  BY <1>7, <1>10, LegalKind
<1>12. \E i \in DOMAIN Words(<<"png", "jpeg", "webp">>) : v = Words(<<"png", "jpeg", "webp">>)[i]
  BY <1>9, <1>11 DEF OptionValues
<1>13. \A i \in DOMAIN Words(<<"png", "jpeg", "webp">>) :
          \E w \in {"png", "jpeg", "webp"} : Words(<<"png", "jpeg", "webp">>)[i] = Word(w)
  BY DEF Words
<1>14. v = Word("png")
  BY <1>6, <1>12, <1>13
<1> QED
  BY <1>6, <1>14 DEF Word

\* Images that all are usable and can all be opened are taken in the order they came.
LEMMA AllTaken ==
    ASSUME NEW items, Len(items) \in Nat, DOMAIN items = 1 .. Len(items), items # <<>>,
           \A i \in DOMAIN items : UsableItem(items[i]) /\ Opens(items[i]), NEW asked \in Nat, asked >= 1
    PROVE  LET usable == ElementsAt(items, {i \in DOMAIN items : UsableItem(items[i])})
               taken  == SubSeq(usable, 1, IF Len(usable) < asked THEN Len(usable) ELSE asked)
           IN /\ taken # <<>> /\ \A i \in DOMAIN taken : Opens(taken[i])
              /\ Len(taken) = IF Len(items) < asked THEN Len(items) ELSE asked
<1> DEFINE X == {items[i] : i \in DOMAIN items}
           s == [i \in DOMAIN items |-> items[i]]
           usable == ElementsAt(items, {i \in DOMAIN items : UsableItem(items[i])})
           most == IF Len(usable) < asked THEN Len(usable) ELSE asked
           taken == SubSeq(usable, 1, most)
<1>1. s \in Seq(X) /\ Len(s) = Len(items) /\ DOMAIN s = DOMAIN items /\ \A i \in DOMAIN items : s[i] = items[i]
  OBVIOUS
<1> HIDE DEF s
<1>2. {i \in DOMAIN items : UsableItem(items[i])} = DOMAIN items
  OBVIOUS
<1>3. usable = s
  <2> DEFINE n == Cardinality(DOMAIN items)
             at(k) == InOrder(DOMAIN items)[k]
  <2>1. usable = [k \in 1 .. n |-> items[at(k)]] /\ ElementsAt(s, DOMAIN items) = [k \in 1 .. n |-> s[at(k)]]
    BY <1>2 DEF ElementsAt
  <2>2. \A k \in 1 .. n : at(k) \in DOMAIN items
    <3>1. DOMAIN items \subseteq Nat /\ IsFiniteSet(DOMAIN items)
      BY FinitePlaces
    <3> QED
      BY <3>1, InOrderAt
  <2> HIDE DEF n, at, usable
  <2>3. usable = ElementsAt(s, DOMAIN items)
    BY <1>1, <2>1, <2>2
  <2> QED
    BY <1>1, <2>3, AllPlacesTaken
<1>4. Len(items) >= 1
  <2>1. ASSUME Len(items) = 0
        PROVE  FALSE
    <3>1. DOMAIN items = {}
      BY <2>1
    <3> QED
      BY <3>1
  <2> QED
    BY <2>1
<1> HIDE DEF usable, X
<1>5. most \in Int /\ 1 <= most /\ most <= Len(items)
  BY <1>1, <1>3, <1>4
<1>9. most = IF Len(items) < asked THEN Len(items) ELSE asked
  BY <1>1, <1>3
<1>6. taken = SubSeq(s, 1, most)
  BY <1>3
<1> HIDE DEF most
<1>7. taken \in Seq(X) /\ Len(taken) = most /\ \A i \in 1 .. most : taken[i] = s[i]
  <2>1. 1 \in Int /\ most \in Int /\ \A i \in 1 .. most : s[i] \in X
    BY <1>1, <1>5
  <2>2. /\ SubSeq(s, 1, most) \in Seq(X)
        /\ Len(SubSeq(s, 1, most)) = IF 1 <= most THEN most - 1 + 1 ELSE 0
        /\ \A i \in 1 .. most - 1 + 1 : SubSeq(s, 1, most)[i] = s[1 + i - 1]
    BY <2>1, SubSeqProperties
  <2> HIDE DEF taken
  <2>3. most - 1 + 1 = most /\ 1 <= most
    BY <1>5
  <2>4. \A i \in 1 .. most : 1 + i - 1 = i
    OBVIOUS
  <2> QED
    BY <1>6, <2>2, <2>3, <2>4
<1> HIDE DEF taken
<1>8. taken # <<>> /\ \A i \in DOMAIN taken : Opens(taken[i])
  <2>1. DOMAIN taken = 1 .. most
    BY <1>7
  <2>2. 1 .. most \subseteq DOMAIN items
    BY <1>1, <1>5
  <2>3. taken # <<>>
    BY <1>5, <1>7
  <2> QED
    BY <1>1, <1>7, <2>1, <2>2, <2>3
<1> QED
  BY <1>7, <1>8, <1>9 DEF taken, usable, most


\* An answer that complies is one whose images are all taken.
LEMMA CompliantOpens ==
    ASSUME WireInv, phase = "sent", ~Published[order.model].video,
           NEW items, Complies(items), ~AskedForLossy, NEW i \in DOMAIN items
    PROVE  UsableItem(items[i]) /\ Opens(items[i]) /\ order.model \in OpenAi \cup Seedreams
<1> DEFINE m == order.model
           r == BuildMediaRequest(order)
           item == items[i]
<1>1. Fine(order) /\ m \in DOMAIN Catalog
  BY DEF WireInv, Fine
<1>2. PICK v \in VendorExtras : sent = WireOf(r, v)
  BY DEF WireInv, Asked
<1>3. m \notin Veos \cup {"seedance"}
  BY <1>1, PublishedRow
<1>4. m \in OpenAi \cup Seedreams
  BY <1>1, <1>3 DEF Catalog, OpenAi, Seedreams, Veos
<1>5. sent.fields = FieldsOf(r, v)
  BY <1>2 DEF WireOf
<1>6. CASE m \in OpenAi
  <2>1. sent.fields = OpenAiFields(r)
    <3>1. r.model = m
      BY RequestBuilt
    <3>2. r.model \in OpenAi /\ r.model \notin Seedreams /\ r.model \notin Veos
      BY <1>6, <3>1 DEF OpenAi, Seedreams, Veos
    <3> HIDE DEF r
    <3> QED
      BY <1>5, <3>2, Zenon DEF FieldsOf
  <2>2. /\ item.carriage = "inline"
        /\ item.format = IF "output_format" \in DOMAIN sent.fields THEN sent.fields["output_format"].word ELSE "png"
    BY <1>6 DEF Complies
  <2>3. "output_format" \in DOMAIN sent.fields => sent.fields["output_format"].word = "png"
    <3>1. "output_format" \in DOMAIN sent.fields => sent.fields["output_format"] \notin {Word("jpeg"), Word("webp")}
      BY DEF AskedForLossy
    <3> QED
      BY <1>1, <1>6, <2>1, <3>1, FormatAsked
  <2>4. item.carriage = "inline" /\ item.format = "png"
    BY <2>2, <2>3
  <2> HIDE DEF item
  <2> QED
    BY <1>4, <2>4 DEF UsableItem, Opens, DownloadedAs, item
<1>7. CASE m \in Seedreams
  <2>1. m \notin OpenAi
    BY <1>7 DEF OpenAi, Seedreams
  <2>2. item.carriage = "https" /\ item.header = item.format /\ item.format \in {"png", "jpeg"}
    BY <2>1 DEF Complies
  <2> HIDE DEF item
  <2> QED
    BY <1>4, <2>2 DEF UsableItem, Opens, DownloadedAs, item
<1> QED
  BY <1>4, <1>6, <1>7

\* The answer of a provider keeps the invariant.
LEMMA AnswerKeeps ==
    ASSUME WireInv, NEW items \in Replies, AnswerOrder(items)
    PROVE  WireInv'
<1> DEFINE r == BuildMediaRequest(order)
           asked == r.count.tenths \div 10
           usable == ElementsAt(items, {i \in DOMAIN items : UsableItem(items[i])})
           taken == SubSeq(usable, 1, IF Len(usable) < asked THEN Len(usable) ELSE asked)
<1>1. /\ phase = "sent" /\ ~Published[order.model].video /\ reply' = items /\ order' = order /\ sent' = sent
      /\ IF taken # <<>> /\ \A i \in DOMAIN taken : Opens(taken[i])
         THEN phase' = "imported" /\ opened' = Len(taken)
         ELSE phase' = "failed" /\ UNCHANGED opened
  BY DEF AnswerOrder
<1>2. Len(items) \in Nat /\ items = [i \in 1 .. Len(items) |-> items[i]] /\ DOMAIN items = 1 .. Len(items)
  BY WireAssumption
<1> DEFINE ordered == order.parameters["count"].tenths \div 10
<1>3. ASSUME Complies(items), ~AskedForLossy
      PROVE  phase' = "imported" /\ opened' = IF Len(items) < ordered THEN Len(items) ELSE ordered
  <2>1. items # <<>>
    BY <1>3, Zenon DEF Complies
  <2>2. \A i \in DOMAIN items : UsableItem(items[i]) /\ Opens(items[i]) /\ order.model \in OpenAi \cup Seedreams
    BY <1>1, <1>3, CompliantOpens
  <2>3. \E i \in DOMAIN items : TRUE
    <3>1. SUFFICES ASSUME DOMAIN items = {}
                   PROVE  FALSE
      OBVIOUS
    <3>2. items = [i \in {} |-> items[i]]
      BY <1>2, <3>1
    <3>3. items = <<>>
      BY <3>2
    <3> QED
      BY <2>1, <3>3
  <2>4. Fine(order) /\ order.model \in OpenAi \cup Seedreams
    BY <1>1, <2>2, <2>3 DEF WireInv
  <2>5. asked = ordered /\ asked \in 1 .. 4
    BY <2>4, CountOrdered
  <2> HIDE DEF asked, ordered
  <2>6. asked \in Nat /\ asked >= 1
    BY <2>5
  <2>7. /\ taken # <<>> /\ \A i \in DOMAIN taken : Opens(taken[i])
        /\ Len(taken) = IF Len(items) < asked THEN Len(items) ELSE asked
    BY <1>2, <2>1, <2>2, <2>6, AllTaken
  <2> HIDE DEF taken, usable
  <2> QED
    BY <1>1, <2>5, <2>7
<1> HIDE DEF taken, usable, asked
<1>4. phase' \in {"imported", "failed"}
  BY <1>1
<1>5. AnsweredIsImported'
  <2>1. SUFFICES ASSUME Complies(items), ~AskedForLossy
                 PROVE  phase' = "imported" /\ opened' = IF Len(items) < ordered THEN Len(items) ELSE ordered
    BY <1>1 DEF AnsweredIsImported, Complies, AskedForLossy
  <2> QED
    BY <1>3, <2>1
<1>6. Asked'
  BY <1>1 DEF WireInv, Asked, SentOf
<1>7. Fine(order')
  BY <1>1 DEF WireInv
<1> QED
  BY <1>4, <1>5, <1>6, <1>7 DEF WireInv


\* Every order has one adapter.
LEMMA AdapterOf ==
    ASSUME NEW o, Fine(o), NEW v
    PROVE  LET m == o.model
               r == BuildMediaRequest(o)
           IN /\ m \in OpenAi \cup Seedreams \cup Veos \cup {"seedance"}
              /\ m \in OpenAi => RefusalsOf(r, v) = OpenAiRefusals(r) /\ FieldsOf(r, v) = OpenAiFields(r)
              /\ m \in Seedreams => RefusalsOf(r, v) = SeedreamRefusals(r) /\ FieldsOf(r, v) = SeedreamFields(r)
              /\ m \in Veos => RefusalsOf(r, v) = VeoRefusals(r, v) /\ FieldsOf(r, v) = VeoFields(r, v)
              /\ m = "seedance" => RefusalsOf(r, v) = SeedanceRefusals(r) /\ FieldsOf(r, v) = SeedanceFields(r)
<1> DEFINE m == o.model
           r == BuildMediaRequest(o)
<1>1. r.model = m
  BY RequestBuilt
<1>2. m \in OpenAi \cup Seedreams \cup Veos \cup {"seedance"}
  BY DEF Fine, Catalog, OpenAi, Seedreams, Veos
<1>3. /\ m \in OpenAi => m \notin Seedreams /\ m \notin Veos
      /\ m \in Seedreams => m \notin OpenAi /\ m \notin Veos
      /\ m \in Veos => m \notin OpenAi /\ m \notin Seedreams
      /\ m = "seedance" => m \notin OpenAi /\ m \notin Seedreams /\ m \notin Veos
  BY DEF OpenAi, Seedreams, Veos
<1> HIDE DEF m, r
<1>4. m \in OpenAi => RefusalsOf(r, v) = OpenAiRefusals(r) /\ FieldsOf(r, v) = OpenAiFields(r)
  BY <1>1, <1>3, Zenon DEF RefusalsOf, FieldsOf
<1>5. m \in Seedreams => RefusalsOf(r, v) = SeedreamRefusals(r) /\ FieldsOf(r, v) = SeedreamFields(r)
  BY <1>1, <1>3, Zenon DEF RefusalsOf, FieldsOf
<1>6. m \in Veos => RefusalsOf(r, v) = VeoRefusals(r, v) /\ FieldsOf(r, v) = VeoFields(r, v)
  BY <1>1, <1>3, Zenon DEF RefusalsOf, FieldsOf
<1>7. m = "seedance" => RefusalsOf(r, v) = SeedanceRefusals(r) /\ FieldsOf(r, v) = SeedanceFields(r)
  BY <1>1, <1>3, Zenon DEF RefusalsOf, FieldsOf
<1> QED
  BY <1>2, <1>4, <1>5, <1>6, <1>7 DEF m, r

\* What an adapter may refuse of an admitted order.
MayRefuse(o, what, vendor) ==
    \/ what \in {"mask format", "mask without image", "mask geometry", "mask bytes", "large image"}
    \/ what = "size" /\ "padded" \in DOMAIN o.parameters["size"]
    \/ what \in Overrides(vendor)
    \/ what = "durationSeconds" /\ "resolution" \in Overrides(vendor)

\* No adapter refuses more of an order than that.
LEMMA OrdersTaken ==
    ASSUME NEW o, Fine(o), NEW v, NEW what \in RefusalsOf(BuildMediaRequest(o), v)
    PROVE  MayRefuse(o, what, v) /\ o.drawing = {}
<1> DEFINE m == o.model
           r == BuildMediaRequest(o)
<1>1. CASE m \in OpenAi
  BY <1>1, AdapterOf, OpenAiTakes DEF MayRefuse, MaskExcuses
<1>2. CASE m \in Seedreams
  BY <1>2, AdapterOf, SeedreamTakes DEF MayRefuse
<1>3. CASE m \in Veos
  BY <1>3, AdapterOf, VeoTakes DEF MayRefuse, VeoExcused
<1>4. CASE m = "seedance"
  BY <1>4, AdapterOf, SeedanceTakes
<1> QED
  BY <1>1, <1>2, <1>3, <1>4, AdapterOf

\* The parameters of every order reach its provider.
LEMMA OrdersReach ==
    ASSUME NEW o, Fine(o), NEW v, o.model \in Veos \/ v = <<>>
    PROVE  Reaches(o.model, o.parameters, FieldsOf(BuildMediaRequest(o), v), v)
<1> DEFINE m == o.model
           r == BuildMediaRequest(o)
<1>1. CASE m \in OpenAi
  <2>1. m \notin Veos
    BY <1>1 DEF OpenAi, Veos
  <2> QED
    BY <1>1, <2>1, AdapterOf, OpenAiReaches
<1>2. CASE m \in Seedreams
  <2>1. m \notin Veos
    BY <1>2 DEF Seedreams, Veos
  <2> QED
    BY <1>2, <2>1, AdapterOf, SeedreamReaches
<1>3. CASE m \in Veos
  BY <1>3, AdapterOf, VeoReaches
<1>4. CASE m = "seedance"
  <2>1. m \notin Veos
    BY <1>4 DEF Veos
  <2> QED
    BY <1>4, <2>1, AdapterOf, SeedanceReaches
<1> QED
  BY <1>1, <1>2, <1>3, <1>4, AdapterOf

\* What is never sent, of the order there is.
LEMMA NotSentIs == ASSUME Fine(order) PROVE NotSent = NotSentOf(order.model, order.parameters)
<1>1. order.model = "seedance" => order.model \notin Seedreams
  BY DEF Seedreams
<1>2. CASE order.model = "seedance"
  BY <1>1, <1>2, Zenon DEF NotSent, NotSentOf
<1>3. CASE order.model \in Seedreams
  BY <1>1, <1>3, Zenon DEF NotSent, NotSentOf
<1>4. CASE order.model # "seedance" /\ order.model \notin Seedreams
  BY <1>4, Zenon DEF NotSent, NotSentOf
<1> QED
  BY <1>2, <1>3, <1>4

\* Of the invariant follows that what was admitted is accepted,
LEMMA AdmittedAccepted ==
    ASSUME WireInv
    PROVE  AdmittedIsAccepted
<1> SUFFICES ASSUME phase = "refused"
             PROVE  order.drawing = {} /\ \A what \in sent.refusals : MayRefuse(order, what, sent.vendor)
  BY DEF AdmittedIsAccepted, MayRefuse, Overridden, Overrides
<1>1. PICK v \in VendorExtras :
          /\ RefusalsOf(BuildMediaRequest(order), v) # {}
          /\ sent = [refusals |-> RefusalsOf(BuildMediaRequest(order), v), vendor |-> v]
  BY DEF WireInv, TurnedDown
<1>2. sent.refusals = RefusalsOf(BuildMediaRequest(order), v) /\ sent.vendor = v
  BY <1>1
<1>3. Fine(order)
  BY DEF WireInv
<1> QED
  BY <1>1, <1>2, <1>3, OrdersTaken

\* that its parameters are on the wire,
LEMMA ParametersSent ==
    ASSUME Fine(order), Asked
    PROVE  ParametersOnWire
<1> DEFINE r == BuildMediaRequest(order)
<1>1. PICK v \in VendorExtras : SentOf(v) /\ sent = WireOf(r, v)
  BY DEF Asked
<1>2. sent.fields = FieldsOf(r, v) /\ sent.vendor = v
  BY <1>1 DEF WireOf
<1>3. Reaches(order.model, order.parameters, sent.fields, v)
  BY <1>1, <1>2, OrdersReach DEF SentOf
<1>4. NotSent = NotSentOf(order.model, order.parameters)
  BY NotSentIs
<1>5. Overridden = Overrides(v)
  BY <1>2 DEF Overridden, Overrides
<1> HIDE DEF r
<1> DEFINE kept == DOMAIN order.parameters \ (NotSent \cup Overridden)
           name(n) == WireName(order.model, n)
<1>6. /\ \A n \in kept : name(n) \in DOMAIN sent.fields /\ SameText(order.parameters[n], sent.fields[name(n)])
      /\ \A f \in DOMAIN sent.fields : f = "response_format" \/ \E n \in kept \cup Overridden : f = name(n)
  BY <1>3, <1>4, <1>5 DEF Reaches
<1> HIDE DEF kept
<1>7. DOMAIN sent.fields \subseteq {name(n) : n \in kept \cup Overridden} \cup {"response_format"}
  BY <1>6
<1> QED
  BY <1>6, <1>7 DEF ParametersOnWire, kept

\* and that its images are.
LEMMA ImagesSent ==
    ASSUME Fine(order), Asked
    PROVE  ImagesOnWire
<1> DEFINE r == BuildMediaRequest(order)
           pl == PlacesOf(r)
           images == order.images
           m == order.model
<1>1. PICK v \in VendorExtras : sent = WireOf(r, v)
  BY DEF Asked
<1>2. sent.places = [p \in DOMAIN pl |-> InOrder(pl[p])]
  BY <1>1 DEF WireOf
<1>3. Partition(pl, images) /\ (PositionalOf(m, images) \/ Roled(m, images, pl))
  BY PlacesPartition
<1>4. Len(images) \in Nat /\ DOMAIN images = 1 .. Len(images)
  BY DEF Fine, Carried
<1> HIDE DEF pl, r, images
<1> DEFINE places == sent.places
<1> HIDE DEF places
<1>5. /\ \A i \in DOMAIN images : Cardinality(SpotsIn(places, i)) = 1
      /\ \A i, j \in DOMAIN images : \A s \in SpotsIn(places, i), t \in SpotsIn(places, j) :
             s[1] = t[1] /\ i < j => s[2] < t[2]
      /\ \A i \in DOMAIN images : \A s \in SpotsIn(places, i) : s[1] \in DOMAIN pl /\ i \in pl[s[1]]
  BY <1>2, <1>3, <1>4, ImagesPlaced DEF places
<1>6. Positional \/ \A i \in DOMAIN images : \A s \in SpotsIn(places, i) : s[1] = RolePlace(m, images[i].role)
  <2>1. CASE PositionalOf(m, images)
    BY <2>1 DEF Positional, PositionalOf, images
  <2>2. CASE Roled(m, images, pl)
    BY <1>5, <2>2 DEF Roled
  <2> QED
    BY <1>3, <2>1, <2>2
<1> DEFINE spots(i) == SpotsIn(places, i)
<1>7. /\ \A i \in DOMAIN order.images : Cardinality(spots(i)) = 1
      /\ \A i, j \in DOMAIN order.images : \A s \in spots(i), t \in spots(j) :
              s[1] = t[1] /\ i < j => s[2] < t[2]
      /\ Positional \/ \A i \in DOMAIN order.images : \A s \in spots(i) :
                            s[1] = RolePlace(order.model, order.images[i].role)
  BY <1>5, <1>6 DEF images
<1> QED
  BY <1>7, Zenon DEF ImagesOnWire, SpotsIn, places

-----------------------------------------------------------------------------
\* The invariant is kept by every step.
LEMMA WireInvNext ==
    ASSUME WireInv, [WireNext]_wireVars
    PROVE  WireInv'
<1>1. ASSUME phase' = "queued", Fine(order')
      PROVE  WireInv'
  <2>1. AnsweredIsImported'
    BY <1>1 DEF AnsweredIsImported
  <2> QED
    BY <1>1, <2>1 DEF WireInv
<1>2. ASSUME NEW m \in DOMAIN Catalog, NEW raw \in Raws(m), NEW images \in Stagings, Admit(m, raw, images)
      PROVE  WireInv'
  BY <1>1, <1>2, AdmitFine
<1>3. ASSUME NEW m \in DOMAIN Catalog, NEW raw \in Raws(m), NEW drawing \in Drawings, EditImage(m, raw, drawing)
      PROVE  WireInv'
  BY <1>1, <1>3, EditImageFine
<1>4. ASSUME NEW v \in VendorExtras, order.model \in Veos \/ v = <<>>, SubmitOrder(v)
      PROVE  WireInv'
  BY <1>4, SubmitKeeps
<1>5. ASSUME NEW items \in Replies, AnswerOrder(items)
      PROVE  WireInv'
  BY <1>5, AnswerKeeps
<1>6. CASE UNCHANGED wireVars
  BY <1>6 DEF wireVars, WireInv, TurnedDown, Asked, SentOf, AnsweredIsImported, Complies, AskedForLossy
<1> QED
  BY <1>2, <1>3, <1>4, <1>5, <1>6 DEF WireNext

\* Of every order, whatever it is of, whoever answers it and however: what was admitted is
\* accepted, all of it and nothing else is on the wire, where it belongs, and a complying answer is
\* imported.
THEOREM OrdersAreHonoured == WireSpec => []OrderHonoured
<1> DEFINE Inv == WireInv /\ DrawingsCut
<1>1. WireInit => Inv
  BY DEF WireInit, WireInv, DrawingsCut, AnsweredIsImported
<1>2. Inv /\ [WireNext]_wireVars => Inv'
  BY WireInvNext, DrawingsCutNext
<1>3. Inv => OrderHonoured
  <2> SUFFICES ASSUME WireInv, DrawingsCut
               PROVE  OrderHonoured
    OBVIOUS
  <2>1. ASSUME phase \in {"sent", "imported", "failed"}
        PROVE  ParametersOnWire /\ ImagesOnWire /\ MaskAsDrawn
    <3>1. Fine(order) /\ Asked
      BY <2>1 DEF WireInv
    <3>2. phase # "form"
      BY <2>1
    <3> QED
      BY <3>1, <3>2, ParametersSent, ImagesSent, HoleIsDrawn
  <2>2. WireAsAdmitted
    BY <2>1 DEF WireAsAdmitted
  <2>3. AnsweredIsImported
    BY DEF WireInv
  <2> QED
    BY <2>2, <2>3, AdmittedAccepted DEF OrderHonoured
<1> QED
  BY <1>1, <1>2, <1>3, PTL DEF WireSpec
=============================================================================
