--------------------------- MODULE MCProviderRequests ---------------------------
(***************************************************************************)
(* Instances, for TLC, of the way from an admitted request to the provider.         *)
(***************************************************************************)
EXTENDS ProviderRequests

\* A value of each kind: what the defaults are not, what a band refuses, what couples.
MCOffers ==
    [size |-> {AutoSize, Size(1536, 1024), Size(1600, 1600), Size(2304, 1728), Size(1792, 1024), Size(64, 64),
               Size(2048, 2048) @@ [padded |-> TRUE]},
     quality |-> {Word("high"), Word("max"), Word("hd")},
     background |-> {Word("transparent")},
     output_format |-> {Word("jpeg"), Word("webp")},
     output_compression |-> {Number(500)},
     input_fidelity |-> {Word("low")},
     count |-> {Number(20), Number(50)},
     watermark |-> {Flag(TRUE)},
     durationSeconds |-> {Word("4"), Number(100)},
     aspectRatio |-> {Word("9:16"), Word("21:9")},
     resolution |-> {Word("720p"), Word("1080p"), Word("4k")},
     audio |-> {Flag(FALSE)},
     seed |-> {Number(0), Number(10 * SeedMax)},
     camera_fixed |-> {Flag(TRUE)},
     frames |-> {Number(240)}]

Picture(role) == [role |-> role, format |-> "jpeg", geometry |-> <<64, 64>>, large |-> FALSE]
First     == Picture("first_frame")
Last_     == Picture("last_frame")
Reference == Picture("reference_image")
Mask      == [Picture("mask") EXCEPT !.format = "png"]

MCStagings ==
    {<<>>, <<Reference>>, <<Reference, Reference>>, <<First>>, <<Last_>>, <<First, Last_>>, <<Last_, First>>,
     <<Reference, First>>, <<Reference, Last_, First, Reference>>, <<[First EXCEPT !.large = TRUE]>>,
     <<Mask>>, <<Reference, Mask>>, <<Mask, Reference>>, <<Mask, First>>,
     <<Reference, [Mask EXCEPT !.format = "jpeg"]>>, <<Reference, [Mask EXCEPT !.large = TRUE]>>,
     <<Reference, [Mask EXCEPT !.geometry = <<64, 96>>]>>}

\* Drawn forwards and backwards, over an edge, at half pixels, and too little or nothing of the image.
MCDrawings ==
    {[format |-> f, geometry |-> g, x |-> r[1], y |-> r[2], width |-> r[3], height |-> r[4]] :
        f \in {"png", "jpeg"}, g \in {<<32, 32>>, <<48, 32>>, <<32, 60>>},
        r \in {<<0, 0, 64, 64>>, <<3, 5, 17, 16>>, <<41, 40, -25, -31>>, <<-9, 40, 40, 200>>, <<10, 10, 15, 40>>,
               <<10, 10, 16, 14>>, <<200, 0, 40, 40>>}}

Item(carriage, format, header) == [carriage |-> carriage, format |-> format, header |-> header]

MCReplies ==
    LET inline(f) == Item("inline", f, "none")
        there(f)  == Item("https", f, f)
    IN {<<>>, <<inline("png")>>, <<inline("png"), inline("png"), inline("png")>>,
        <<inline("jpeg")>>, <<inline("webp")>>, <<there("jpeg")>>, <<there("png"), there("jpeg")>>,
        <<there("webp")>>, <<Item("https", "jpeg", "none")>>, <<Item("https", "png", "none")>>,
        <<Item("https", "png", "jpeg")>>, <<Item("http", "png", "png")>>, <<Item("both", "png", "png")>>,
        <<Item("none", "png", "none"), inline("png")>>}

MCVendorExtras ==
    {<<>>, [resolution |-> Word("4k")], [seed |-> Word("7")], [aspectRatio |-> Word("1:1")],
     [generateAudio |-> Flag(FALSE)], [generateAudio |-> Word("4")], [sampleCount |-> Number(30)]}
=============================================================================
