---------------------------- MODULE ProviderRequests ----------------------------
(***************************************************************************)
(* From an admitted request to the provider and back: what the API stores of a     *)
(* request or of a masked edit, the normalised request the worker makes of it       *)
(* (apps/worker/src/jobs/index.ts), what each bundled adapter refuses and puts on    *)
(* the wire, and which of the images it is answered with can be imported.            *)
(*                                                                               *)
(* The contracts are the adapters' own declarations.  An image is its role, its    *)
(* format, its geometry, and whether it is large: over Veo's 20 MB, and so over the  *)
(* 4 MB of a mask.                                                                  *)
(***************************************************************************)
EXTENDS ParameterContract, SequencesExt

CONSTANTS
    Offers,        \* parameter -> the values a request may give for it
    Stagings,      \* sequences of images a request may have
    Drawings,      \* the rectangles a user may draw, in half pixels, and the image under it
    Replies,       \* the sequences of images a provider may answer with
    VendorExtras,  \* what a Veo credential may carry besides its secret
    SeedMax        \* bound: the largest seed, for 2^31 - 1

ASSUME WireAssumption ==
    /\ SeedMax \in Nat
    /\ \A n \in DOMAIN Offers : \A v \in Offers[n] : IsNumber(v) => v.tenths \in Int /\ v = Number(v.tenths)
    /\ \A s \in Stagings \cup Replies : Len(s) \in Nat /\ s = [i \in 1 .. Len(s) |-> s[i]]
    /\ \A d \in Drawings : /\ d.x \in Int /\ d.y \in Int /\ d.width \in Int /\ d.height \in Int
                           /\ d.geometry[1] \in Nat /\ d.geometry[2] \in Nat

\* The words that stand for the lengths of a clip are numerals.
ASSUME NumeralsAssumption == \A w \in {"4", "6", "8"} : \E k \in 0 .. 30 : ToString(k) = w

VARIABLES
    phase,     \* how far the order is
    order,     \* the stored job: model, parameters, images, and the rectangle drawn
    sent,      \* what the adapter refused, or the fields and the places of the images it sent
    reply,     \* what the provider answered
    opened     \* the number of images imported

wireVars == <<phase, order, sent, reply, opened>>

-----------------------------------------------------------------------------
(* The declarations of the bundled adapters.                                       *)

Sizes(geometries) == [i \in DOMAIN geometries |-> Preset(geometries[i][1], geometries[i][2])]
Words(s)          == [i \in DOMAIN s |-> Word(s[i])]
Defaulted(d, v)   == [d EXCEPT !.default = {v}]

CountUpTo(n) == Defaulted(Integer("count", 10, 10 * n, {}), Number(10))
GptSize(presets, custom) ==
    Defaulted(ImageSize("size", presets, custom,
                        IF custom THEN {[NoConstraint EXCEPT
                                            !.maxWidth = {3840}, !.maxHeight = {3840},
                                            !.widthMultipleOf = {16}, !.heightMultipleOf = {16},
                                            !.minPixels = {655360}, !.maxPixels = {8294400},
                                            !.maxAspectRatio = {3}]} ELSE {}),
              presets[1].value)
Quality(words) == Defaulted(Enum("quality", Words(words)), Word(words[1]))

GptLadder    == <<"auto", "low", "medium", "high">>
Background   == Defaulted(Enum("background", Words(<<"auto", "opaque", "transparent">>)), AutoSize)
OutputFormat == Defaulted(Enum("output_format", Words(<<"png", "jpeg", "webp">>)), Word("png"))
Compression  == [Integer("output_compression", 0, 1000, {}) EXCEPT
                    !.default = {Number(1000)},
                    !.dependsOn = On("output_format", {Word("jpeg"), Word("webp")})]
Watermark    == Defaulted(Switch("watermark"), Flag(FALSE))
Audio        == Defaulted(Switch("audio"), Flag(TRUE))
Fidelity     == Defaulted(Enum("input_fidelity", Words(<<"low", "high">>)), Word("high"))

ImageModel(parameters, slots, most) ==
    [Undeclared EXCEPT !.declared = TRUE,
                       !.modes = {"text_to_image"} \cup (IF slots = <<>> THEN {} ELSE {"image_to_image"}),
                       !.parameters = parameters, !.inputSlots = slots, !.maxCount = {most},
                       !.flags = [@ EXCEPT !.textToImage = {TRUE}, !.imageToImage = {slots # <<>>},
                                           !.imageEdit = {slots # <<>>}]]

ModernGpt(presets, ladder) ==
    [ImageModel(<<GptSize(<<AutoPreset>> \o Sizes(presets), TRUE), Quality(ladder),
                  Background, OutputFormat, Compression, CountUpTo(4)>>,
                <<Slot("reference_image", FALSE, 4), Slot("mask", FALSE, 1)>>, 4)
        EXCEPT !.crossFieldConstraints = {Forbidden("background", Word("transparent"),
                                                    "output_format", {Word("jpeg")})},
               !.flags = [@ EXCEPT !.inpainting = {TRUE}]]

GptSizes == <<<<1536, 1024>>, <<1024, 1536>>, <<2048, 2048>>, <<2048, 1152>>, <<3840, 2160>>, <<2160, 3840>>>>

Seedream2k == <<<<2048, 2048>>, <<2304, 1728>>, <<1728, 2304>>, <<2848, 1600>>, <<1600, 2848>>,
                <<2496, 1664>>, <<1664, 2496>>, <<3136, 1344>>>>
Seedream4k == <<<<4096, 4096>>, <<4704, 3520>>, <<3520, 4704>>, <<5504, 3040>>, <<3040, 5504>>,
                <<4992, 3328>>, <<3328, 4992>>, <<6240, 2656>>>>
Seedream1k == <<<<1024, 1024>>, <<1152, 864>>, <<864, 1152>>, <<1280, 720>>, <<720, 1280>>,
                <<1248, 832>>, <<832, 1248>>, <<1512, 648>>>>

SeedreamSize(presets, floor) ==
    Defaulted(ImageSize("size", presets, TRUE, {[NoConstraint EXCEPT !.maxPixels = {4096 * 4096},
                                                     !.maxAspectRatio = {16}, !.minPixels = {floor}]}),
              Size(2048, 2048))

Seedream(presets, floor) ==
    ImageModel(<<SeedreamSize(Sizes(presets), floor), CountUpTo(4), Watermark>>,
               <<Slot("reference_image", FALSE, 4)>>, 4)

VideoModel(parameters, slots) ==
    [Undeclared EXCEPT !.declared = TRUE, !.video = TRUE, !.modes = {"text_to_video", "image_to_video"},
                       !.parameters = parameters, !.inputSlots = slots, !.maxCount = {4}]

Frames == <<Slot("first_frame", FALSE, 1), Slot("last_frame", FALSE, 1), Slot("reference_image", FALSE, 4)>>

Veo(resolutions, first) ==
    [VideoModel(<<Defaulted(Enum("durationSeconds", Words(<<"4", "6", "8">>)), Word("8")),
                  Defaulted(Enum("aspectRatio", Words(<<"16:9", "9:16">>)), Word("16:9")),
                  Defaulted(Enum("resolution", Words(resolutions)), Word(first)),
                  Audio, CountUpTo(4)>>, Frames)
        EXCEPT !.crossFieldConstraints = {Forbidden("resolution", Word(r), "durationSeconds",
                                                    {Word("4"), Word("6")}) : r \in {"1080p", "4k"}}]

Seedance ==
    VideoModel(<<Defaulted(Integer("durationSeconds", 10, 300, {}), Number(50)),
                 Defaulted(Enum("aspectRatio", Words(<<"16:9", "9:16", "1:1", "4:3", "3:4", "21:9">>)), Word("16:9")),
                 Defaulted(Enum("resolution", Words(<<"720p", "1080p">>)), Word("720p")),
                 Audio, CountUpTo(4),
                 Integer("seed", 0, 10 * SeedMax, {}), Watermark,
                 Switch("camera_fixed"), Integer("frames", 10, 100000, {})>>,
               Append(Frames, Slot("mask", FALSE, 1)))

\* The two 2.5 variants share one declaration, as do the two ids of Seedance.
Catalog ==
    [n \in {"gpt-image-2.5", "gpt-image-2", "gpt-image-1.5", "dall-e-3", "seedream-4.0", "seedream-4.5",
            "veo", "veo-fast", "seedance"} |->
        CASE n = "gpt-image-2.5" -> ModernGpt(<<<<1024, 1024>>>> \o GptSizes, GptLadder \o <<"xhigh", "max">>)
          [] n = "gpt-image-2"   -> ModernGpt(<<<<1024, 1024>>, <<1280, 720>>, <<720, 1280>>>> \o GptSizes, GptLadder)
          [] n = "gpt-image-1.5" ->
                 ImageModel(<<GptSize(<<AutoPreset>> \o Sizes(<<<<1024, 1024>>, <<1024, 1536>>, <<1536, 1024>>>>), FALSE),
                              Quality(GptLadder), Fidelity, CountUpTo(4)>>,
                            <<Slot("reference_image", FALSE, 1)>>, 4)
          [] n = "dall-e-3"      ->
                 ImageModel(<<GptSize(Sizes(<<<<1024, 1024>>, <<1792, 1024>>, <<1024, 1792>>>>), FALSE),
                              Quality(<<"standard", "hd">>), CountUpTo(1)>>, <<>>, 1)
          [] n = "seedream-4.0"  -> Seedream(Seedream1k \o Seedream2k \o Seedream4k, 1280 * 720)
          [] n = "seedream-4.5"  -> Seedream(Seedream2k \o Seedream4k, 2560 * 1440)
          [] n = "veo"           -> Veo(<<"720p", "1080p", "4k">>, "1080p")
          [] n = "veo-fast"      -> Veo(<<"720p">>, "720p")
          [] OTHER               -> Seedance]

\* None of them breaks a rule of the contract.
ASSUME BundledDeclarationsValid == \A m \in DOMAIN Catalog : DeclarationFindings(Catalog[m]) = {}

Published == [m \in DOMAIN Catalog |-> CapabilitiesFromRow(Catalog[m])]

OpenAi == {"gpt-image-2.5", "gpt-image-2", "gpt-image-1.5", "dall-e-3"}
Seedreams == {"seedream-4.0", "seedream-4.5"}
Veos == {"veo", "veo-fast"}

-----------------------------------------------------------------------------
(* A masked edit (apps/api/src/modules/image-edit/handlers.ts).                     *)

Abs(n) == IF n < 0 THEN -n ELSE n

\* A ratio in its lowest terms.
ReduceRatio(w, h) ==
    LET divisor == CHOOSE d \in 1 .. w : /\ w % d = 0 /\ h % d = 0
                                         /\ \A e \in d + 1 .. w : w % e # 0 \/ h % e # 0
    IN <<w \div divisor, h \div divisor>>

Ratios == [p \in UNION {UNION {PresetValues(d) \ {AutoSize} : d \in {x \in DescriptorsOf(c.parameters) :
                                                                     x.type = "image-size"}}
                        : c \in {Published[m] : m \in {"gpt-image-2.5", "gpt-image-2"}}}
              |-> ReduceRatio(p.width, p.height)]

\* The preset whose ratio is nearest, on a logarithmic scale, to the image's; of several, the one
\* with most pixels.  A quotient of ratios is kept as a numerator and a denominator.
PickClosestAllowedSize(sizes, g) ==
    LET off(p)  == LET a == Ratios[p][1] * g[2]
                       b == Ratios[p][2] * g[1]
                   IN IF a > b THEN <<a, b>> ELSE <<b, a>>
        near(p, q) == LET x == off(p)[1] * off(q)[2]
                          y == off(q)[1] * off(p)[2]
                      IN x < y \/ (x = y /\ p.width * p.height >= q.width * q.height)
    IN CHOOSE p \in sizes : \A q \in sizes : near(p, q)

MinEditSelection == 8

\* Where a coordinate in half pixels is cut, of an image so many pixels long.
CutAt(v, most) == LET c == IF v < 0 THEN 0 ELSE IF v > 2 * most THEN 2 * most ELSE v
                  IN (c + 1) \div 2

\* What of a drawn rectangle, given in half pixels, is edited: nothing when too little of the image
\* is under it.  A drag may go backwards; the far edge is rounded, not the width.
ClampEditSelection(drawn, w, h) ==
    LET low(from, by, most)  == CutAt(IF by < 0 THEN from + by ELSE from, most)
        high(from, by, most) == CutAt(IF by < 0 THEN from ELSE from + by, most)
        cut == [left |-> low(drawn.x, drawn.width, w), right  |-> high(drawn.x, drawn.width, w),
                top  |-> low(drawn.y, drawn.height, h), bottom |-> high(drawn.y, drawn.height, h)]
    IN IF cut.right - cut.left < MinEditSelection \/ cut.bottom - cut.top < MinEditSelection THEN {}
       ELSE {cut}

-----------------------------------------------------------------------------
(* The worker.                                                                    *)

TheOnly(set) == CHOOSE x \in set : TRUE

\* Number(v): of a number, and of a word that is one.
NumberOf(v) == IF IsNumber(v) THEN v
               ELSE TheOnly({Number(10 * n) : n \in {k \in 0 .. 30 : Word(ToString(k)) = v}})

ForwardableInputRoles == {"first_frame", "last_frame", "reference_image", "mask"}

\* Mutant: what the video adapters read of the parameters is not mirrored completely.
VideoParametersWithoutResolution(p) == [n \in DOMAIN p \cap {"aspectRatio", "audio", "duration", "seed", "fps"} |-> p[n]]

\* The parameters the video adapters read.
VideoParameters(p) == [n \in DOMAIN p \cap {"aspectRatio", "resolution", "audio", "duration", "seed", "fps"} |-> p[n]]

\* No bundled model of videos declares a size.
BuildMediaRequest(o) ==
    LET p        == o.parameters
        given(n) == IF n \in DOMAIN p THEN {p[n]} ELSE {}
        or(n, v) == IF n \in DOMAIN p THEN p[n] ELSE v
        roles    == [i \in DOMAIN o.images |-> o.images[i].role]
    IN [model |-> o.model, images |-> o.images, parameters |-> p,
        size |-> given("size"), quality |-> given("quality"),
        count |-> or("count", Number(10)), watermark |-> or("watermark", Flag(FALSE)),
        seconds |-> {NumberOf(v) : v \in IF given("durationSeconds") # {} THEN given("durationSeconds")
                                         ELSE given("duration")},
        extra |-> VideoParameters(p),
        roles |-> IF roles # <<>> /\ Range(roles) \subseteq ForwardableInputRoles THEN {roles} ELSE {}]

-----------------------------------------------------------------------------
(* The adapters: the names of what they refuse, the fields they send, and the numbers of  *)
(* the images that go to each place.                                                *)

Unless(ok, name)      == IF ok THEN {} ELSE {name}
Present(values)       == [n \in {f \in DOMAIN values : values[f] # {}} |-> TheOnly(values[n])]
Over(f, g)            == [n \in DOMAIN f \cup DOMAIN g |-> IF n \in DOMAIN f THEN f[n] ELSE g[n]]
With(images, roles)   == {i \in DOMAIN images : images[i].role \in roles}

\* openai-image: the contract, then the mask.
MaskRefusals(images) ==
    LET masks == With(images, {"mask"})
        bases == DOMAIN images \ masks
        mask  == images[InOrder(masks)[1]]
    IN IF masks = {} THEN {}
       ELSE IF Cardinality(masks) > 1              THEN {"masks"}
       ELSE IF mask.format # "png"                 THEN {"mask format"}
       ELSE IF bases = {}                          THEN {"mask without image"}
       ELSE IF mask.geometry # images[InOrder(bases)[1]].geometry THEN {"mask geometry"}
       ELSE IF mask.large                          THEN {"mask bytes"}
       ELSE {}

OpenAiRefusals(r) ==
    LET slots == {s \in Range(Catalog[r.model].inputSlots) : s.role = "reference_image"}
        most  == IF slots = {} THEN 0 ELSE TheOnly(slots).maxCount
        \* The typed fields win over the parameters: they are the same values.
        typed == Present([size |-> r.size, quality |-> r.quality, count |-> {r.count}])
    IN (UNION {i.about : i \in ValidateAgainstDeclaration(Catalog[r.model], Over(typed, r.parameters))})
       \cup Unless(Cardinality(DOMAIN r.images \ With(r.images, {"mask"})) <= most, "references")
       \cup MaskRefusals(r.images)

OpenAiFields(r) ==
    LET declared  == NamesOf(Catalog[r.model].parameters)
        chosen(n) == IF n \in DOMAIN r.parameters \cap declared THEN {r.parameters[n]} ELSE {}
        format    == IF "output_format" \notin declared THEN {}
                     ELSE IF chosen("output_format") # {} THEN chosen("output_format") ELSE OutputFormat.default
        lossy     == format \subseteq {Word("jpeg"), Word("webp")}
        size      == IF r.size = {} THEN {Size(1024, 1024)} ELSE r.size
    IN Present(IF r.model = "dall-e-3"
               THEN [size |-> size, quality |-> r.quality, n |-> {Number(10)},
                     response_format |-> IF r.images = <<>> THEN {Word("b64_json")} ELSE {}]
               ELSE [size |-> size, quality |-> r.quality, n |-> {r.count}, output_format |-> format,
                     background |-> chosen("background"),
                     output_compression |-> IF lossy THEN chosen("output_compression") ELSE {},
                     input_fidelity |-> chosen("input_fidelity")])

OpenAiPlaces(r) ==
    LET masks == With(r.images, {"mask"})
    IN [p \in {"image[]", "mask"} |-> IF p = "mask" THEN masks ELSE DOMAIN r.images \ masks]

\* seedream-image: a size with a leading zero is no wire size.
SeedreamRefusals(r) ==
    LET c == Catalog[r.model].parameters
    IN Unless(\A v \in r.size : "padded" \notin DOMAIN v /\ v.kind = "string" /\ ParsedSize(v) # {}
                                /\ Legal(Descriptor(c, "size"), v), "size")
       \cup Unless(Legal(Descriptor(c, "count"), r.count), "count")
       \cup Unless(Legal(Descriptor(c, "watermark"), r.watermark), "watermark")

SeedreamFields(r) ==
    Present([size |-> IF r.size = {} THEN {Size(2048, 2048)} ELSE r.size, response_format |-> {Word("url")},
             watermark |-> {r.watermark}, max_images |-> IF r.count.tenths > 10 THEN {r.count} ELSE {}])

SeedreamPlaces(r) == [image |-> DOMAIN r.images]

\* veo-video: what the credential carries wins over what the request says.  Left out are the fields
\* only a credential can ask for (storageUri, personGeneration, negativePrompt, enhancePrompt, fps,
\* resizeMode, compressionQuality): they go beside these, or are refused for their own range.
VeoFields(r, vendor) ==
    LET extra    == Over(vendor, r.extra)
        or(n, v) == IF n \in DOMAIN extra THEN extra[n] ELSE v
        audio    == IF "generateAudio" \in DOMAIN extra THEN {extra.generateAudio}
                    ELSE IF "audio" \in DOMAIN extra THEN {extra.audio} ELSE {}
    IN Present([durationSeconds |-> IF r.seconds = {} THEN {NumberOf(or("durationSeconds", Number(80)))}
                                    ELSE r.seconds,
                aspectRatio |-> {or("aspectRatio", Word("16:9"))}, resolution |-> {or("resolution", Word("720p"))},
                sampleCount |-> {r.count}, generateAudio |-> audio,
                seed |-> IF "seed" \in DOMAIN extra THEN {NumberOf(extra.seed)} ELSE {}])

VeoRefusals(r, vendor) ==
    LET c     == Catalog[r.model]
        f     == VeoFields(r, vendor)
        d(n)  == Descriptor(c.parameters, n)
        said  == [durationSeconds |-> StringOf(f.durationSeconds), aspectRatio |-> f.aspectRatio,
                  resolution |-> f.resolution]
    IN (UNION {Unless(said[n] \in OptionValues(d(n)), n) : n \in DOMAIN said})
       \cup (UNION {i.about : i \in EvaluateCrossFieldConstraints(c.crossFieldConstraints, said)})
       \cup Unless(Legal(d("count"), f.sampleCount), "count")
       \cup Unless("seed" \in DOMAIN f => Whole(f.seed) /\ f.seed.tenths >= 0, "seed")
       \cup Unless("generateAudio" \in DOMAIN f => Legal(d("audio"), f.generateAudio), "audio")
       \cup Unless(\A i \in DOMAIN r.images : ~r.images[i].large, "large image")

\* The stored roles count if they name exactly one first frame and at most one last frame;
\* otherwise the first image is the first frame, the second the last one.
VeoPlaces(r) ==
    IF /\ r.roles # {}
       /\ \A roles \in r.roles : /\ Range(roles) \subseteq {"first_frame", "last_frame", "reference_image"}
                                 /\ Times(roles, "first_frame") = 1 /\ Times(roles, "last_frame") <= 1
    THEN [image |-> With(r.images, {"first_frame"}), lastFrame |-> With(r.images, {"last_frame"}),
          referenceImages |-> With(r.images, {"reference_image"})]
    ELSE LET all == DOMAIN r.images
         IN [image |-> all \cap {1}, lastFrame |-> all \cap {2}, referenceImages |-> all \ {1, 2}]

\* seedance-video: a control per wire name, with the keys it may come from, the provider's own first.
SeedanceSources(r) ==
    LET either(a, b) == IF a \in DOMAIN r.extra THEN {r.extra[a]}
                        ELSE IF b \in DOMAIN r.extra THEN {r.extra[b]} ELSE {}
        only(n)      == either(n, n)
        else(s, t)   == IF s # {} THEN s ELSE t
    IN [generate_audio |-> either("generate_audio", "audio"),
        camera_fixed   |-> only("camera_fixed"),
        watermark      |-> else(only("watermark"), {r.watermark}),
        seed           |-> only("seed"),
        resolution     |-> only("resolution"),
        ratio          |-> either("ratio", "aspectRatio"),
        duration       |-> else(only("duration"), r.seconds),
        frames         |-> only("frames")]

\* The grammar of a resolution and of a ratio takes every word the console offers; a duration may
\* be a fraction.
SeedanceRefusals(r) ==
    LET c     == Catalog[r.model].parameters
        given == SeedanceSources(r)
        named == [n \in DOMAIN given |-> IF n = "generate_audio" THEN "audio" ELSE n]
        range(v) == IsNumber(v) /\ v.tenths \in 10 .. 300
    IN (UNION {Unless(\A v \in given[n] : Legal(Descriptor(c, named[n]), v), n)
              : n \in {"generate_audio", "camera_fixed", "watermark", "seed", "frames"}})
       \cup Unless(\A v \in given["resolution"] \cup given["ratio"] : v.kind = "string", "resolution")
       \cup Unless(\A v \in given["duration"] \cup r.seconds : range(v), "duration")
       \cup Unless(Legal(Descriptor(c, "count"), r.count), "count")

SeedanceFields(r) == Present(SeedanceSources(r))

SeedancePlaces(r) ==
    LET last  == Len(r.images)
        roles == IF r.roles # {} THEN TheOnly(r.roles)
                 ELSE [i \in DOMAIN r.images |-> IF i \notin {1, last} \/ last = 1 THEN "reference_image"
                                          ELSE IF i = 1 THEN "first_frame" ELSE "last_frame"]
    IN [role \in ForwardableInputRoles |-> {i \in DOMAIN r.images : roles[i] = role}]

-----------------------------------------------------------------------------
WireInit ==
    /\ phase = "form"
    /\ order = <<>> /\ sent = <<>> /\ reply = <<>> /\ opened = 0

\* What a request may give: at most two parameters besides what is put in by default.
Givable(m)   == UNION {{<<n, v>> : v \in Offers[n]} : n \in DOMAIN Offers \cap NamesOf(Published[m].parameters)}
Giving(a, b) == [n \in {a[1], b[1]} |-> IF n = a[1] THEN a[2] ELSE b[2]]
Raws(m)      == {<<>>} \cup {Giving(a, b) : a, b \in Givable(m)}

\* The API admits the request and stores it with its defaults.
Store(m, raw, images, drawing) ==
    /\ phase = "form"
    /\ ValidateGenerationRequest(Published[m], raw, [i \in DOMAIN images |-> images[i].role]) = {}
    /\ order' = [model |-> m, parameters |-> NormalizedParameters(Published[m], raw),
                 images |-> images, drawing |-> drawing]
    /\ phase' = "queued"
    /\ UNCHANGED <<sent, reply, opened>>

Admit(m, raw, images) == Store(m, raw, images, {})

\* The image that is edited, decoded, and the mask in its geometry, made from a rectangle or fitted
\* from one that was painted.
EditSource(drawing) ==
    [role |-> "reference_image", format |-> drawing.format, geometry |-> drawing.geometry, large |-> FALSE]
EditMask(source) == [source EXCEPT !.role = "mask", !.format = "png"]

\* A masked edit: the size follows the image, and one picture is asked for.
EditImage(m, raw, drawing) ==
    LET c      == Published[m]
        sizes  == UNION {PresetValues(d) \ {AutoSize} : d \in {x \in DescriptorsOf(c.parameters) : x.name = "size"}}
        source == EditSource(drawing)
        region == ClampEditSelection(drawing, source.geometry[1], source.geometry[2])
    IN /\ ~c.video /\ c.declared
       /\ \E s \in Range(c.inputSlots) : s.role = "mask"
       /\ sizes # {} /\ region # {}
       /\ Store(m, Over([size |-> PickClosestAllowedSize(sizes, source.geometry), count |-> Number(10)], raw),
                <<source, EditMask(source)>>, {[drawn |-> drawing, hole |-> TheOnly(region)]})

\* The adapter of a model, on what the worker hands it.
RefusalsOf(r, vendor) ==
    CASE r.model \in OpenAi    -> OpenAiRefusals(r)
      [] r.model \in Seedreams -> SeedreamRefusals(r)
      [] r.model \in Veos      -> VeoRefusals(r, vendor)
      [] OTHER                 -> SeedanceRefusals(r)

FieldsOf(r, vendor) ==
    CASE r.model \in OpenAi    -> OpenAiFields(r)
      [] r.model \in Seedreams -> SeedreamFields(r)
      [] r.model \in Veos      -> VeoFields(r, vendor)
      [] OTHER                 -> SeedanceFields(r)

PlacesOf(r) ==
    CASE r.model \in OpenAi    -> OpenAiPlaces(r)
      [] r.model \in Seedreams -> SeedreamPlaces(r)
      [] r.model \in Veos      -> VeoPlaces(r)
      [] OTHER                 -> SeedancePlaces(r)

\* The images of a place are sent in their order.
WireOf(r, vendor) ==
    [fields |-> FieldsOf(r, vendor), places |-> [p \in DOMAIN PlacesOf(r) |-> InOrder(PlacesOf(r)[p])],
     vendor |-> vendor]

SubmitOrder(vendor) ==
    /\ phase = "queued"
    /\ LET r        == BuildMediaRequest(order)
           refusals == RefusalsOf(r, vendor)
       IN /\ phase' = IF refusals = {} THEN "sent" ELSE "refused"
          /\ sent' = IF refusals = {} THEN WireOf(r, vendor)
                     ELSE [refusals |-> refusals, vendor |-> vendor]
    /\ UNCHANGED <<order, reply, opened>>

\* Mutant: only an image that is given by its address is taken.
ItemByAddress(item) == item.carriage = "https"

\* An image of an answer is taken if it is given in exactly one way, by a safe address or inline.
UsableItem(item) == item.carriage \in {"https", "inline"}

\* readBoundedOutput: it is what the download says that it is, else png.
DownloadedAs(item) == IF item.carriage = "https" /\ item.header # "none" THEN item.header ELSE "png"

\* inspectDecodedImageOutput: it must be one of two formats, and decode as the one declared.
Opens(item) == DownloadedAs(item) \in {"png", "jpeg"} /\ DownloadedAs(item) = item.format

\* A provider of images answers in line: the images it gives are imported together or not at all.
AnswerOrder(items) ==
    /\ phase = "sent" /\ ~Published[order.model].video
    /\ LET asked  == BuildMediaRequest(order).count.tenths \div 10
           usable == ElementsAt(items, {i \in DOMAIN items : UsableItem(items[i])})
           taken  == SubSeq(usable, 1, IF Len(usable) < asked THEN Len(usable) ELSE asked)
       IN IF taken # <<>> /\ \A i \in DOMAIN taken : Opens(taken[i])
          THEN phase' = "imported" /\ opened' = Len(taken)
          ELSE phase' = "failed" /\ UNCHANGED opened
    /\ reply' = items
    /\ UNCHANGED <<order, sent>>

WireNext ==
    \/ /\ phase = "form"
       /\ \E m \in DOMAIN Catalog : \E raw \in Raws(m) :
              \/ \E images \in Stagings : Admit(m, raw, images)
              \/ \E drawing \in Drawings : EditImage(m, raw, drawing)
    \/ \E vendor \in VendorExtras :
           /\ phase = "queued" /\ (order.model \in Veos \/ vendor = <<>>)
           /\ SubmitOrder(vendor)
    \/ \E items \in Replies : AnswerOrder(items)

WireSpec == WireInit /\ [][WireNext]_wireVars

-----------------------------------------------------------------------------
(* Properties.                                                                    *)

WireTypeOK ==
    /\ phase \in {"form", "queued", "refused", "sent", "imported", "failed"}
    /\ opened \in 0 .. 4
    /\ phase # "form" => order.model \in DOMAIN Catalog

\* What a Veo credential decides instead of the request.
Overridden == (DOMAIN sent.vendor \cap {"aspectRatio", "resolution", "seed", "audio"})
              \cup (IF "generateAudio" \in DOMAIN sent.vendor THEN {"audio"} ELSE {})

\* What the API admitted, the adapter takes (create-job.ts:128): it refuses only what the API does
\* not look at, the bytes and the shape of a mask or of an image the user supplied, a size spelt with
\* leading zeros, and what the credential puts in the place of the request.  What the editor made
\* of a drawing is never refused.
AdmittedIsAccepted ==
    phase = "refused" =>
        /\ order.drawing = {}
        /\ \A what \in sent.refusals :
               \/ what \in {"mask format", "mask without image", "mask geometry", "mask bytes", "large image"}
               \/ what = "size" /\ "padded" \in DOMAIN order.parameters["size"]
               \/ what \in Overridden
               \/ what = "durationSeconds" /\ "resolution" \in Overridden

\* The name on the wire of a parameter.
WireName(m, n) ==
    CASE n = "count" -> IF m \in OpenAi THEN "n" ELSE IF m \in Veos THEN "sampleCount" ELSE "max_images"
      [] n = "audio" -> IF m \in Veos THEN "generateAudio" ELSE "generate_audio"
      [] m = "seedance" /\ n = "aspectRatio"     -> "ratio"
      [] m = "seedance" /\ n = "durationSeconds" -> "duration"
      [] OTHER -> n

\* What is stored and never sent: Seedance makes one clip a task, and the worker does not mirror two
\* of the controls its adapter reads; Seedream needs no number for one image.
NotSent ==
    CASE order.model = "seedance"      -> {"count", "camera_fixed", "frames"}
      [] order.model \in Seedreams     -> IF order.parameters["count"] = Number(10) THEN {"count"} ELSE {}
      [] OTHER                         -> {}

ParametersOnWire ==
    LET kept == DOMAIN order.parameters \ (NotSent \cup Overridden)
        name(n) == WireName(order.model, n)
    IN /\ \A n \in kept : /\ name(n) \in DOMAIN sent.fields
                          /\ SameText(order.parameters[n], sent.fields[name(n)])
       /\ DOMAIN sent.fields \subseteq
              {name(n) : n \in kept \cup Overridden} \cup {"response_format"}

\* The place for an image of a role.
RolePlace(m, role) ==
    CASE m \in OpenAi            -> IF role = "mask" THEN "mask" ELSE "image[]"
      [] m \in Seedreams         -> "image"
      [] m \in Veos              -> CASE role = "first_frame" -> "image" [] role = "last_frame" -> "lastFrame"
                                      [] OTHER -> "referenceImages"
      [] OTHER                   -> role

\* Veo has a place for every image, but it needs exactly one first frame to keep the roles.
Positional == order.model \in Veos /\ Cardinality(With(order.images, {"first_frame"})) # 1

ImagesOnWire ==
    LET spots(i) == UNION {{<<p, k>> : k \in {x \in DOMAIN sent.places[p] : sent.places[p][x] = i}}
                           : p \in DOMAIN sent.places}
    IN /\ \A i \in DOMAIN order.images : Cardinality(spots(i)) = 1
       /\ \A i, j \in DOMAIN order.images : \A s \in spots(i), t \in spots(j) :
              s[1] = t[1] /\ i < j => s[2] < t[2]
       /\ Positional \/ \A i \in DOMAIN order.images : \A s \in spots(i) :
                            s[1] = RolePlace(order.model, order.images[i].role)

\* The hole in a mask lies in the image and has every pixel that was drawn over as a whole, and no
\* pixel that was not drawn over at all.
MaskAsDrawn ==
    \A e \in order.drawing :
        LET d == e.drawn
            h == e.hole
            agrees(from, by, low, high, most) ==
                LET near == IF by < 0 THEN from + by ELSE from
                    far  == near + Abs(by)
                IN \A p \in 0 .. most - 1 :
                       /\ (2 * p >= near /\ 2 * p + 2 <= far) => p \in low .. high - 1
                       /\ p \in low .. high - 1 => (2 * p + 2 > near /\ 2 * p < far)
        IN /\ 0 <= h.left /\ h.right <= d.geometry[1] /\ 0 <= h.top /\ h.bottom <= d.geometry[2]
           /\ agrees(d.x, d.width, h.left, h.right, d.geometry[1])
           /\ agrees(d.y, d.height, h.top, h.bottom, d.geometry[2])

\* Every parameter the job stores reaches the provider with its value, and of the fields modelled no
\* other is set; every image does, once, in its order and at the place of its role; a mask is what was
\* drawn (jobs/index.ts:519: "Losing a parameter on the way to a vendor is a billable mistake").
WireAsAdmitted ==
    phase \in {"sent", "imported", "failed"} => ParametersOnWire /\ ImagesOnWire /\ MaskAsDrawn

\* The provider gave images, in the way and in the format it was asked for: Seedream by address,
\* the others inline, as png if no other format was asked for.
Complies(items) ==
    LET inline == order.model \in OpenAi
    IN items # <<>> /\ \A i \in DOMAIN items :
           IF inline
           THEN /\ items[i].carriage = "inline"
                /\ items[i].format = IF "output_format" \in DOMAIN sent.fields
                                     THEN sent.fields.output_format.word ELSE "png"
           ELSE items[i].carriage = "https" /\ items[i].header = items[i].format
                /\ items[i].format \in {"png", "jpeg"}

\* The adapter declares inline images png, so a jpeg or a webp it asked for cannot be opened.
AskedForLossy == "output_format" \in DOMAIN sent.fields
                 /\ sent.fields.output_format \in {Word("jpeg"), Word("webp")}

\* The images of a provider that did what it was asked are imported, as many as were ordered or as
\* there are: a job is not failed, and so not paid for again, for how the images came.
AnsweredIsImported ==
    phase \in {"imported", "failed"} /\ Complies(reply) /\ ~AskedForLossy =>
        LET asked == order.parameters["count"].tenths \div 10
        IN phase = "imported" /\ opened = IF Len(reply) < asked THEN Len(reply) ELSE asked

\* What was ordered is taken on, asked for as it was ordered, and kept when it comes.
OrderHonoured == AdmittedIsAccepted /\ WireAsAdmitted /\ AnsweredIsImported
=============================================================================
