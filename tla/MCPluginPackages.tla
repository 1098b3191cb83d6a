----------------------------- MODULE MCPluginPackages -----------------------------
(***************************************************************************)
(* Instances, for TLC, of the packages of plugins: a package that is accepted, in    *)
(* five shapes, and every one of them with one thing changed.                       *)
(***************************************************************************)
EXTENDS PluginPackages, MCRequests

Entry(name, usize, csize, at) ==
    [name |-> name, dir |-> FALSE, marks |-> {}, encrypted |-> FALSE, zip64 |-> FALSE, disk |-> 0,
     method |-> "deflate", at |-> at, csize |-> csize, usize |-> usize, crc |-> 0,
     host |-> "unix", type |-> "file", actual |-> usize, data |-> 0, stream |-> "deflated",
     local |-> [encrypted |-> FALSE, method |-> "deflate", name |-> name, descriptor |-> FALSE,
                crc |-> 0, csize |-> csize, usize |-> usize]]

Named(e, name) == [e EXCEPT !.name = name, !.local.name = name]

Host(form, wild, padded) == [form |-> form, wild |-> wild, padded |-> padded, name |-> <<"acme", "example">>]
Endpoint(name) == [scheme |-> "https", host |-> name]
MCAccount == [providerId |-> "acme", schemaId |-> "json-v1", format |-> "json", label |-> "key", padded |-> TRUE,
            placeholder |-> {""}, help |-> {"see the docs"}, policy |-> "fixed",
            default |-> {Endpoint(<<"acme", "example">>)}]
Flow == [id |-> "flow-1", modalities |-> <<>>, limit |-> {2}, capabilities |-> {ImageContract}, defaults |-> <<>>]

PlainManifest ==
    [id |-> "acme", version |-> "1.0.0", kind |-> "media", displayName |-> "Acme", padded |-> TRUE,
     description |-> {}, allowedHosts |-> <<Host("name", FALSE, FALSE), Host("name", TRUE, FALSE)>>,
     credentialSchemas |-> <<"json-v1">>, credential |-> {MCAccount}, modalities |-> <<"image">>,
     languageProtocols |-> <<>>, models |-> <<Flow>>]

PlainBlock == [unknown |-> {}, format |-> 1, entry |-> <<"plugin.mjs">>, icon |-> {<<"icon.png">>},
               readme |-> {<<"docs", "use.md">>}, license |-> {"MIT"}, author |-> {}, homepage |-> {}]

PlainSource == <<"export", "{", "plugin", "as", "default", "}">>

Wrapped ==
    [format |-> "zip-v1", fields |-> <<"package">>, extension |-> TRUE, bytes |-> 60,
     trailing |-> FALSE, zip64 |-> FALSE, volumes |-> 0, directoryAt |-> 40,
     entries |-> << [Entry(<<"acme", "docs">>, 0, 0, 0) EXCEPT !.dir = TRUE, !.type = "dir"],
                    Entry(<<"acme", "manifest.json">>, 4, 2, 1),
                    Entry(<<"acme", "plugin.mjs">>, 8, 4, 5),
                    Entry(<<"acme", "docs", "use.md">>, 4, 2, 11),
                    Entry(<<"acme", "icon.png">>, 2, 2, 15),
                    Entry(<<"__MACOSX", "acme", "._icon.png">>, 2, 1, 20) >>,
     json |-> "object", block |-> {PlainBlock}, manifest |-> PlainManifest,
     icon |-> [header |-> "png", animated |-> FALSE, edge |-> 2, decodes |-> TRUE], doc |-> "text",
     code |-> [tokens |-> PlainSource, import |-> "settles", exports |-> {}], nul |-> FALSE]

\* The same without the directory around it, made on another system, with descriptors.
AtTheRoot ==
    [Wrapped EXCEPT !.entries = [i \in 1 .. 5 |->
        LET e == Named(@[i], Tail(@[i].name))
        IN [e EXCEPT !.host = "dos", !.type = "link", !.local.descriptor = TRUE, !.local.usize = 0]]]
Legacy == [Wrapped EXCEPT !.format = "mjs", !.fields = <<"manifest", "file">>, !.bytes = 8]
Language ==
    [Wrapped EXCEPT !.manifest.kind = "language", !.manifest.modalities = <<>>, !.manifest.credential = {},
                    !.manifest.languageProtocols = <<"openai_chat", "openai_chat">>]
Tiny == [Wrapped EXCEPT !.entries = <<@[2], [@[3] EXCEPT !.method = "stored", !.csize = 8, !.local.method = "stored",
                                                           !.local.csize = 8]>>,
                        !.block = {[PlainBlock EXCEPT !.icon = {}, !.readme = {}]}]

\* What can differ in an archive, at one entry.
Entries(e) ==
    {[e EXCEPT !.encrypted = TRUE], [e EXCEPT !.zip64 = TRUE], [e EXCEPT !.disk = 1],
     [e EXCEPT !.method = "aes", !.local.method = "aes"], [e EXCEPT !.method = "stored"], [e EXCEPT !.at = 39],
     [e EXCEPT !.at = @ - 1], [e EXCEPT !.local.name = <<"other.mjs">>], [e EXCEPT !.local.usize = 1],
     [e EXCEPT !.marks = {"colon"}], [e EXCEPT !.type = "link"], [e EXCEPT !.actual = 40],
     [e EXCEPT !.actual = 0], [e EXCEPT !.data = 1], [e EXCEPT !.stream = "garbage"],
     [e EXCEPT !.usize = 40, !.actual = 40, !.local.usize = 40], [e EXCEPT !.csize = 1, !.local.csize = 1],
     [e EXCEPT !.csize = 0, !.local.csize = 0, !.usize = 20, !.local.usize = 20, !.actual = 20]}
    \cup {Named(e, name) : name \in {<<"acme", "..", "x.md">>, <<"acme", "", "x.md">>, <<"acme", "USE.md">>,
                                     <<"acme", "use.md">>, <<"acme", "DOCS">>, <<"acme", "docs", "USE.md">>,
                                     <<"acme", "plugin.mjs", "x.md">>, <<"acme", "more.PNG">>, <<"acme", "lib.mjs">>,
                                     <<"acme", "run.js">>, <<"x.md">>, <<"acme", ".DS_Store">>,
                                     <<"acme", "PLUGIN.MJS">>, <<"manifest.json">>}}

Archives(p) ==
    {[p EXCEPT !.bytes = 200], [p EXCEPT !.trailing = TRUE], [p EXCEPT !.zip64 = TRUE], [p EXCEPT !.volumes = 1],
     [p EXCEPT !.entries = <<>>], [p EXCEPT !.entries = @ \o @], [p EXCEPT !.directoryAt = 8],
     [p EXCEPT !.fields = Append(@, "more")], [p EXCEPT !.extension = FALSE], [p EXCEPT !.bytes = 0]}
    \cup UNION {{[p EXCEPT !.entries[i] = e] : e \in Entries(p.entries[i])} : i \in {2, Len(p.entries)}}
    \cup {[p EXCEPT !.entries = Append(Front(@), Named(Entry(<<>>, 2, 2, 20), name))] :
              name \in {<<"acme", "USE.md">>, <<"acme", "docs", "USE.md">>, <<"acme", "Docs">>,
                        <<"acme", "docs", "use.md", "x.md">>, <<"acme", ".DS_Store">>}}

Blocks(b) ==
    {[b EXCEPT !.unknown = {"dependencies"}], [b EXCEPT !.format = 2], [b EXCEPT !.entry = <<>>],
     [b EXCEPT !.entry = <<"lib.mjs">>], [b EXCEPT !.entry = <<"PLUGIN.MJS">>], [b EXCEPT !.icon = {}],
     [b EXCEPT !.icon = {<<"icon.svg">>}], [b EXCEPT !.icon = {<<"logo.png">>}], [b EXCEPT !.readme = {}],
     [b EXCEPT !.readme = {<<"plugin.mjs">>}], [b EXCEPT !.license = {"malformed"}]}

Sources ==
    {<<"import", "type", "x", "from", "'fs'">>, <<"import", "x", "from", "'fs'">>, <<"import", ".", "meta">>,
     <<"x", ".", "import", "(">>, <<"import", "(", "'node:test'", ")">>, <<"require", "(", "'fs'", ")">>,
     <<"export", "*", "from", "'x'">>, <<"export", "{", "x", "}", "from", "'x'">>, <<"export", "type", "{", "x", "}">>,
     <<"await", "x">>, <<"/*", "await", "*/">>, <<"async", "x", "await", "y">>, <<"{", "await", "}">>,
     <<"}", "{", "await", "x", "}", "await">>, <<"globalThis", "[", "'fetch'", "]">>, <<"/*", "eval", "(", "*/">>,
     <<"process", ".", "binding">>, <<"process", "[">>, <<"new", "Function", "(">>, <<"globalThis", ".", "fetch">>}

Accounts(a) ==
    {[a EXCEPT !.providerId = "openai"], [a EXCEPT !.providerId = "Bad Id"], [a EXCEPT !.schemaId = "access-token-v1"],
     [a EXCEPT !.format = "xml"], [a EXCEPT !.label = ""], [a EXCEPT !.help = {"too long"}],
     [a EXCEPT !.policy = "any-https"], [a EXCEPT !.default = {}], [a EXCEPT !.default = {}, !.policy = "allowlisted"],
     [a EXCEPT !.default = {Endpoint(<<"api", "acme", "example">>)}], [a EXCEPT !.default = {Endpoint(<<"other", "example">>)}]}

Models(model) ==
    {[model EXCEPT !.id = ""], [model EXCEPT !.modalities = <<"video">>], [model EXCEPT !.modalities = <<"sound">>],
     [model EXCEPT !.limit = {}], [model EXCEPT !.limit = {Infinite}], [model EXCEPT !.capabilities = {}],
     [model EXCEPT !.capabilities = {BadContract}], [model EXCEPT !.defaults = ("format" :> Jpeg)],
     [model EXCEPT !.defaults = ("format" :> [kind |-> "nested"])],
     [model EXCEPT !.capabilities = {}, !.defaults = ("format" :> [kind |-> "nested"])]}

Manifests(m) ==
    {[m EXCEPT !.id = "Bad Id"], [m EXCEPT !.id = "openai-image"], [m EXCEPT !.id = "openai-compatible"],
     [m EXCEPT !.version = "1.0"], [m EXCEPT !.kind = "tool"], [m EXCEPT !.displayName = ""],
     [m EXCEPT !.description = {"images"}], [m EXCEPT !.allowedHosts = <<>>], [m EXCEPT !.credentialSchemas = <<>>],
     [m EXCEPT !.credentialSchemas = <<"json-v1", "oauth">>],
     [m EXCEPT !.credentialSchemas = <<"json-v1", "access-token-v1", "json-v1">>], [m EXCEPT !.credential = {}],
     [m EXCEPT !.models = <<>>], [m EXCEPT !.modalities = <<"image", "image">>],
     [m EXCEPT !.modalities = <<"image", "sound">>], [m EXCEPT !.modalities = <<>>],
     [m EXCEPT !.languageProtocols = <<"telnet">>]}
    \cup {[m EXCEPT !.credential = {a}] : a \in Accounts(MCAccount)}
    \cup {[m EXCEPT !.models[1] = model] : model \in Models(m.models[1])}
    \cup {[m EXCEPT !.allowedHosts[2] = Host(form, FALSE, padded)] :
              form \in {"name", "blank", "star", "address", "private", "junk"}, padded \in BOOLEAN}

Contents(p) ==
    {[p EXCEPT !.json = "array"], [p EXCEPT !.json = "blank"], [p EXCEPT !.block = {}], [p EXCEPT !.doc = "binary"],
     [p EXCEPT !.nul = TRUE], [p EXCEPT !.icon.header = "webp"], [p EXCEPT !.icon.animated = TRUE],
     [p EXCEPT !.icon.edge = 9], [p EXCEPT !.icon.decodes = FALSE], [p EXCEPT !.code.import = "throws"]}
    \cup UNION {{[p EXCEPT !.block = {c}] : c \in Blocks(b)} : b \in p.block}
    \cup {[p EXCEPT !.code.tokens = s \o PlainSource] : s \in Sources}
    \cup {[p EXCEPT !.manifest = m] : m \in Manifests(p.manifest)}

\* The bundle exports what manifest.json says, or that and something else.
Truly(p) == [manifest |-> p.manifest, functions |-> RequiredFunctions(p.manifest.kind), others |-> {}]
Built(p) == [p EXCEPT !.code.exports = {Truly(p)}]

Exporting(p) ==
    LET t == Truly(p)
    IN {[p EXCEPT !.code.exports = {}], [p EXCEPT !.code.exports = {[t EXCEPT !.functions = {"submit"}]}],
        [p EXCEPT !.code.exports = {[t EXCEPT !.others = {"poll", "probe"}]}],
        [p EXCEPT !.code.exports = {[t EXCEPT !.manifest.id = "acme-two"]}],
        [p EXCEPT !.code.exports = {[t EXCEPT !.manifest.version = "2.0.0"]}],
        [p EXCEPT !.code.exports = {[t EXCEPT !.manifest.displayName = "Acme Two"]}],
        [p EXCEPT !.code.exports = {[t EXCEPT !.manifest.models = <<>>]}]}

Shapes     == {Wrapped, AtTheRoot, Legacy, Language, Tiny}
Changed(p) == {p} \cup Archives(p) \cup Contents(p)
NoUpload   == [format |-> "mjs", fields |-> <<>>, extension |-> FALSE, bytes |-> 0, json |-> "blank"]
MCUploads  == {NoUpload} \cup {Built(p) : p \in UNION {Changed(q) : q \in Shapes}} \cup UNION {Exporting(q) : q \in Shapes}
MCPluginIds == {"acme", "acme-two", "openai", "openai-image", "openai-compatible"}
MCPluginVersions == {"1.0.0", "2.0.0"}
MCLowerCase == ("USE.md" :> "use.md") @@ ("DOCS" :> "docs") @@ ("Docs" :> "docs") @@ ("PLUGIN.MJS" :> "plugin.mjs")
MCClassOfBase ==
    [b \in {"plugin.mjs", "PLUGIN.MJS", "lib.mjs", "use.md", "USE.md", "x.md", "icon.png", "more.PNG"} |->
        CASE b \in {"plugin.mjs", "PLUGIN.MJS", "lib.mjs"} -> "code"
          [] b \in {"icon.png", "more.PNG"}                -> "icon"
          [] OTHER                                         -> "doc"]
MCBuiltinMedia    == {<<"openai-image", "1.0.0">>}
MCBuiltinLanguage == {<<"openai-compatible", "1.0.0">>}
MCBuiltinProviders == {"openai", "google"}
=================================================================================
