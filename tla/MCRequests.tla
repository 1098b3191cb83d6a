------------------------------- MODULE MCRequests -------------------------------
(***************************************************************************)
(* Instances, for TLC, of the way of a request: the contracts are small ones of the *)
(* shapes the bundled plugins and the form of an uploaded one have.                 *)
(***************************************************************************)
EXTENDS GenerationRequest

Png == Word("png")
Jpeg == Word("jpeg")
Format == [Enum("format", <<Png, Jpeg>>) EXCEPT !.default = {Png}]

\* Like openai-image: a compression only jpeg has, and a custom size within a band.
ImageContract ==
    [Undeclared EXCEPT
        !.declared = TRUE, !.modes = {"text_to_image", "image_to_image"},
        !.parameters = <<
            Format,
            [Integer("compression", 0, 100, {10}) EXCEPT !.default = {Number(100)},
                                                         !.dependsOn = On("format", {Jpeg})],
            [ImageSize("size", <<AutoPreset, Preset(2, 2)>>, TRUE,
                       {[NoConstraint EXCEPT !.maxWidth = {4}, !.maxAspectRatio = {2},
                                             !.widthMultipleOf = {2}, !.minPixels = {4}]})
                EXCEPT !.default = {AutoSize}],
            [Integer("count", 10, 20, {}) EXCEPT !.default = {Number(10)}] >>,
        !.inputSlots = <<Slot("reference_image", FALSE, 2), Slot("mask", FALSE, 1)>>,
        !.maxCount = {2},
        !.crossFieldConstraints = {Forbidden("format", Jpeg, "size", {AutoSize})}]

\* A video: frames as inputs, a duration under another name, a required seed.
VideoContract ==
    [Undeclared EXCEPT
        !.declared = TRUE, !.video = TRUE, !.modes = {"text_to_video", "image_to_video"},
        !.parameters = <<
            [Integer("duration", 10, 30, {}) EXCEPT !.default = {Number(10)}],
            [Integer("frames", 0, 20, {}) EXCEPT !.required = TRUE, !.dependsOn = On("duration", {Word("2")})],
            [minLength |-> {2}, maxLength |-> {4}, pattern |-> {{Word("png"), Word("jpeg")}}]
                @@ [Plain("text", "container") EXCEPT !.default = {Word("x")}] >>,
        !.inputSlots = <<Slot("first_frame", TRUE, 1), Slot("last_frame", FALSE, 1)>>,
        !.defaults = [duration |-> Number(20)]]

\* A chain of dependencies, a product and a pair that excludes.
ChainContract ==
    [Undeclared EXCEPT
        !.declared = TRUE, !.modes = {"text_to_image"},
        !.parameters = <<
            [Format EXCEPT !.options = <<Png, Jpeg, Word("webp")>>],
            [Switch("tune") EXCEPT !.dependsOn = On("format", {Jpeg})],
            [Integer("level", 10, 20, {}) EXCEPT !.dependsOn = On("tune", {Flag(TRUE)})],
            [Integer("count", 10, 30, {}) EXCEPT !.type = "number", !.precision = {5}] >>,
        !.maxCount = {2},
        !.crossFieldConstraints = {
            [type |-> "max_product", parameter |-> "level", pair |-> <<"level", "count">>,
             whenValueEquals |-> {}, targetValues |-> {}, maxProduct |-> {300}],
            [type |-> "mutually_exclusive", parameter |-> "tune", pair |-> <<"level", "count">>,
             whenValueEquals |-> {}, targetValues |-> {}, maxProduct |-> {}],
            [type |-> "requires", parameter |-> "tune", pair |-> <<"tune", "level">>,
             whenValueEquals |-> {Flag(TRUE)}, targetValues |-> {}, maxProduct |-> {}]}]

\* Its revision before the second parameter hung on the first one.
LooseContract == [ChainContract EXCEPT !.parameters[2].dependsOn = {}]

\* A contract that is refused: its default is no option.
BadContract == [ImageContract EXCEPT !.parameters = <<[Format EXCEPT !.default = {Word("webp")}]>>]

MCDeclarations == [image |-> ImageContract, video |-> VideoContract, chain |-> ChainContract,
                   loose |-> LooseContract, bad |-> BadContract]
MCCanonicalNames == [n \in {"format", "compression", "size", "count", "duration", "frames", "container",
                            "tune", "level"} |-> IF n = "duration" THEN "durationSeconds" ELSE n]
MCTypedValues == {Number(15), Number(20), Flag(TRUE), Size(4, 2), Size(1, 2)}
\* Sizes alone: one within the band of the image contract, and one that breaks it.
MCTypedSizes == {Size(4, 2), Size(1, 2)}
=============================================================================
