----------------------------- MODULE PluginPackages -----------------------------
(***************************************************************************)
(* What a plugin package may contain: the API's inspection of an upload, a zip     *)
(* package or a manifest with one bundle (plugin-package.ts, plugin-scan.ts,        *)
(* admin/plugins.ts), the row it stores, and the worker's checks of the same bundle  *)
(* (plugins/loader.ts).  How rows, objects and workers move is PluginCatalog's.      *)
(*                                                                               *)
(* A package is the list of its entries as the central directory and the local      *)
(* headers describe them; the data of an entry is a value of which the inspection    *)
(* sees length, checksum and content.  A name is a sequence of segments, with marks  *)
(* for what makes it unsafe in other ways.  Host patterns and plugin ids are records  *)
(* of what the checks tell apart.  A declared contract is one of ParameterContract.   *)
(***************************************************************************)
EXTENDS ParameterContract, SequencesExt, Functions

CONSTANTS
    Uploads,        \* the uploads an administrator may send
    MaxPackage, MaxUnpacked, MaxArtifact, MaxText, MaxIcon, MaxRatio, MaxEntries, \* limits
    MaxEdge,        \* limit: the edge of an icon
    LowerCase,      \* segment -> the same in lower case, for those that have capitals
    ClassOfBase,    \* last segment -> "code", "doc" or "icon", for those that have a class
    MjsNames,       \* the last segments that end with .mjs, in that case
    PngNames,       \* the last segments that end with .png, in any case
    PluginIds, PluginVersions,      \* the ids and the versions that match their patterns
    BuiltinMedia, BuiltinLanguage,  \* the keys <<id, version>> of shipped plugins
    BuiltinProviders                \* the credential providers of shipped plugins

ASSUME PackageAssumption ==
    /\ {MaxPackage, MaxUnpacked, MaxArtifact, MaxText, MaxIcon, MaxRatio, MaxEntries} \subseteq Nat
    /\ MaxText <= MaxArtifact /\ MaxIcon <= MaxArtifact /\ MaxArtifact <= MaxUnpacked

\* A host pattern and a credential as a manifest declares them.
HostPattern == [form : STRING, wild : BOOLEAN, padded : BOOLEAN, name : Seq(STRING)]
DeclaredCredential ==
    [ providerId : STRING, schemaId : STRING, format : STRING, label : STRING, padded : BOOLEAN,
      placeholder : SUBSET STRING, help : SUBSET STRING, policy : STRING,
      default : SUBSET [scheme : STRING, host : Seq(STRING)] ]

\* The lists of a manifest are lists.
ManifestShape(m) ==
    /\ m.allowedHosts \in Seq(HostPattern) /\ m.credential \subseteq DeclaredCredential
    /\ {m.credentialSchemas, m.modalities, m.languageProtocols} \subseteq Seq(STRING)
    /\ m.models \in Seq({m.models[i] : i \in DOMAIN m.models})
    /\ \A i \in DOMAIN m.models :
         /\ m.models[i].modalities \in Seq(STRING)
         /\ \A c \in m.models[i].capabilities : DOMAIN c = DOMAIN Undeclared

\* Of a manifest that is no object nothing is read.
ASSUME UploadAssumption == \A p \in Uploads : p.json = "object" => ManifestShape(p.manifest)

VARIABLES
    pack,      \* the upload
    examined,  \* how far it has come
    unread,    \* the files still to be inflated
    held,      \* bytes of inflated data in the API's memory
    catalogued, \* the row stored for it: a set of at most one
    loading    \* what a worker finds wrong with the row

packageVars == <<pack, examined, unread, held, catalogued, loading>>

When(condition, code) == IF condition THEN {code} ELSE {}

-----------------------------------------------------------------------------
(* The archive: central directory, local headers, names (plugin-package.ts).           *)

Sizes3(h) == <<h.crc, h.csize, h.usize>>

EntryFaults(p, e) ==
    When(\/ e.encrypted \/ e.zip64 \/ e.disk # 0
         \/ e.method \notin {"stored", "deflate"}
         \/ e.at < 0 \/ e.at + e.csize > p.directoryAt
         \/ e.local.encrypted # e.encrypted \/ e.local.method # e.method
         \/ e.local.name # e.name
         \/ ~e.local.descriptor /\ Sizes3(e.local) # Sizes3(e)
         \/ e.dir /\ e.usize # 0
         \/ e.method = "stored" /\ e.csize # e.usize, "PLUGIN_PACKAGE_INVALID")

\* Two entries share bytes: they start apart and the first runs into the second.
Overlapping(d, e) == d # e /\ d.at <= e.at /\ e.at < d.at + d.csize + 1

readPluginZipDirectory(p) ==
    When(p.bytes > MaxPackage \/ Len(p.entries) > MaxEntries, "PLUGIN_PACKAGE_TOO_LARGE")
    \cup When(\/ p.trailing \/ p.zip64 \/ p.volumes # 0 \/ p.entries = <<>>
              \/ \E i, j \in DOMAIN p.entries : Overlapping(p.entries[i], p.entries[j]),
              "PLUGIN_PACKAGE_INVALID")
    \cup UNION {EntryFaults(p, p.entries[i]) : i \in DOMAIN p.entries}

\* The type bits of the external attributes count only where a Unix archiver wrote them.
SpecialEntry(e) == e.host = "unix" /\ e.type \notin {"none", IF e.dir THEN "dir" ELSE "file"}

UnsafePathReason(e) ==
    \/ e.marks # {}
    \/ \E i \in DOMAIN e.name : e.name[i] \in {"", ".", ".."}
    \/ SpecialEntry(e)

Lowered(name) == [i \in DOMAIN name |-> IF name[i] \in DOMAIN LowerCase THEN LowerCase[name[i]]
                                        ELSE name[i]]

\* Mutant: names are compared as they are written.
FoldNothing(name) == name

\* Names are compared without regard to capitals.
FoldPath(name) == Lowered(name)

PathFaults(p) ==
    LET folded == [i \in DOMAIN p.entries |-> FoldPath(p.entries[i].name)]
    IN When(\/ \E i \in DOMAIN p.entries : UnsafePathReason(p.entries[i])
            \/ \E i, j \in DOMAIN p.entries :
                   /\ i # j
                   /\ \/ folded[i] = folded[j]
                      \/ ~p.entries[i].dir /\ IsStrictPrefix(folded[i], folded[j]),
            "PLUGIN_PACKAGE_UNSAFE_PATH")

IsIgnoredPackagePath(name) ==
    (\E i \in DOMAIN name : name[i] = "__MACOSX") \/ Last(name) = ".DS_Store"

KeptEntries(p) == SelectSeq(p.entries, LAMBDA e : ~IsIgnoredPackagePath(e.name))
FilesOf(p)     == SelectSeq(KeptEntries(p), LAMBDA e : ~e.dir)

\* The directory that wraps everything, if any: the prefix of every name, or no layout at all.
ResolveLayout(p) ==
    LET names == {FilesOf(p)[i].name : i \in DOMAIN FilesOf(p)}
        roots == {Head(KeptEntries(p)[i].name) : i \in DOMAIN KeptEntries(p)}
    IN IF <<"manifest.json">> \in names THEN {<<>>}
       ELSE {<<r>> : r \in {r \in roots : /\ roots = {r}
                                          /\ \A n \in names : Len(n) > 1
                                          /\ <<r, "manifest.json">> \in names}}

Prefix(p)     == CHOOSE prefix \in ResolveLayout(p) : TRUE
PathOf(p, e)  == SubSeq(e.name, Len(Prefix(p)) + 1, Len(e.name))
FileAt(p, path) == CHOOSE e \in {FilesOf(p)[i] : i \in DOMAIN FilesOf(p)} : PathOf(p, e) = path

ClassifyPath(path) ==
    CASE path = <<"manifest.json">>        -> "manifest"
      [] Last(path) \in DOMAIN ClassOfBase -> ClassOfBase[Last(path)]
      [] OTHER                             -> "forbidden"

PathsOfClass(p, class) ==
    {path \in {PathOf(p, FilesOf(p)[i]) : i \in DOMAIN FilesOf(p)} : ClassifyPath(path) = class}

CapOf(class) == CASE class = "code" -> MaxArtifact [] class = "icon" -> MaxIcon [] OTHER -> MaxText

SumOfSizes(entries) == FoldLeft(LAMBDA sum, e : sum + e.usize, 0, entries)

\* The inventory is taken from the declared sizes, before anything is inflated; what is
\* ignored counts towards the total.
InventoryFaults(p) ==
    LET files == {FilesOf(p)[i] : i \in DOMAIN FilesOf(p)}
        class(e) == ClassifyPath(PathOf(p, e))
    IN When(\E e \in files : class(e) = "forbidden", "PLUGIN_PACKAGE_FORBIDDEN_FILE")
       \cup When(\E e \in files : class(e) # "forbidden" /\ e.usize > CapOf(class(e)), "PLUGIN_PACKAGE_TOO_LARGE")
       \cup When(\E e \in files : class(e) # "forbidden" /\ e.usize > MaxRatio * (IF e.csize = 0 THEN 1 ELSE e.csize), "PLUGIN_PACKAGE_BOMB")
       \cup When(SumOfSizes(SelectSeq(p.entries, LAMBDA e : ~e.dir)) > MaxUnpacked, "PLUGIN_PACKAGE_TOO_LARGE")
       \cup When(\/ Cardinality(PathsOfClass(p, "code")) > 1
                 \/ Cardinality(PathsOfClass(p, "icon")) > 1, "PLUGIN_PACKAGE_FORBIDDEN_FILE")

\* The first step of the inspection that finds a fault ends it.
OutlineFaults(p) ==
    IF readPluginZipDirectory(p) # {} THEN readPluginZipDirectory(p)
    ELSE IF PathFaults(p) # {} THEN PathFaults(p)
    ELSE IF ResolveLayout(p) = {} THEN {"PLUGIN_PACKAGE_INVALID"}
    ELSE InventoryFaults(p)

\* How much of an entry is inflated: the stream is held to the declared size.
Inflated(e) == IF e.method = "stored" THEN e.csize
               ELSE IF e.actual > e.usize THEN e.usize ELSE e.actual

InflateFaults(e) ==
    When(e.method = "deflate" /\ e.actual > e.usize, "PLUGIN_PACKAGE_BOMB")
    \cup When(\/ e.stream = "garbage"
              \/ e.method = "deflate" /\ e.actual < e.usize
              \/ e.crc # e.data, "PLUGIN_PACKAGE_INVALID")

-----------------------------------------------------------------------------
(* The bundle: a textual scan (plugin-scan.ts).  A source is a list of tokens; a quoted   *)
(* string is one token, a comment the tokens between its marks.                          *)

TokenAt(s, i) == IF i \in DOMAIN s THEN s[i] ELSE ""

CommentMarks == {"/*", "*/"}
InComment(s, i) == \E j \in 1 .. i : s[j] = "/*" /\ \A k \in j .. i : s[k] # "*/"

\* How many braces are open before a token; a closing one too many is ignored.
Depth(s, i) ==
    LET code == SelectSeq([j \in 1 .. i - 1 |-> IF InComment(s, j) THEN "*/" ELSE s[j]],
                          LAMBDA t : t \in {"{", "}"})
    IN FoldLeft(LAMBDA d, t : IF t = "{" THEN d + 1 ELSE IF d > 0 THEN d - 1 ELSE 0, 0, code)

\* An async before it with no brace or semicolon in between.
InsideNonBracedAsync(s, i) ==
    \E j \in 1 .. i - 1 : s[j] = "async" /\ \A k \in j .. i - 1 : s[k] \notin {"{", "}", ";"}

NodeBuiltins == {"'fs'", "'node:test'"}

Reexport(s, i) ==
    /\ TokenAt(s, i) = "export"
    /\ \/ /\ TokenAt(s, i + 1) = "{"
          /\ \E j \in DOMAIN s : /\ j > i /\ s[j] = "}" /\ TokenAt(s, j + 1) = "from"
                                 /\ \A k \in i .. j - 1 : s[k] # "}"
       \/ /\ TokenAt(s, i + 1) = "*"
          /\ "from" \in {TokenAt(s, i + 2), TokenAt(s, i + 4)}

\* The rules that match at a token, the more specific first.
RulesAt(s, i) ==
    LET t     == s[i]
        next  == TokenAt(s, i + 1)
        after == TokenAt(s, i + 2)
        last  == TokenAt(s, i - 1)
        matched(condition, rule) == IF condition THEN <<rule>> ELSE <<>>
    IN matched(t = "process" /\ next = "." /\ after \in {"binding", "mainModule"}, "FORBIDDEN_PROCESS_BRIDGE")
       \o matched(\/ (t = "globalThis" /\ next = "." /\ after = "fetch")
             \/ (t = "globalThis" /\ next = "[" /\ after = "'fetch'")
             \/ (t = "fetch" /\ next = "("), "FORBIDDEN_GLOBAL_FETCH")
       \o matched(t = "process" /\ next \in {".", "["}, "FORBIDDEN_PROCESS_ENV")
       \o matched((t = "require" /\ next = "(") \/ t = "createRequire", "FORBIDDEN_REQUIRE")
       \o matched((t \in {"eval", "Function"} /\ next = "(") \/ (t = "new" /\ next = "Function"), "FORBIDDEN_DYNAMIC_EVAL")
       \o matched(t = "globalThis" /\ next = "[", "FORBIDDEN_BRACKET_GLOBAL")
       \o matched(t = "import" /\ last # "." /\ next \notin {"type", "."}, "FORBIDDEN_RUNTIME_IMPORT")
       \o matched(Reexport(s, i), "FORBIDDEN_RUNTIME_IMPORT")
       \o matched(t \in NodeBuiltins /\ (last = "from" \/ (last = "(" /\ TokenAt(s, i - 2) \in {"require", "import"})),
             "FORBIDDEN_NODE_BUILTIN")
       \o matched(t = "await" /\ ~InComment(s, i) /\ Depth(s, i) = 0 /\ last # "." /\ ~InsideNonBracedAsync(s, i),
             "FORBIDDEN_TOP_LEVEL_AWAIT")

\* One finding to a position.
scanPluginSource(s) == {Head(RulesAt(s, i)) : i \in {j \in DOMAIN s : RulesAt(s, j) # <<>>}}

-----------------------------------------------------------------------------
(* The manifest (plugin-scan.ts).  A list that is absent is empty; what may be left out is  *)
(* a set of at most one.                                                                 *)

CredentialSchemas == {"legacy-api-key-v1", "json-v1", "access-token-v1"}
LanguageProtocols == {"openai_chat", "openai_responses", "anthropic_messages"}
MediaModalities   == {"image", "video"}

HostFaults(host) ==
    CASE host.form = "blank"   -> {"INVALID_HOST_PATTERN"}
      [] host.form = "star"    -> {"WILDCARD_HOST_FORBIDDEN"}
      [] host.form = "address" -> {"IP_HOST_FORBIDDEN"}
      [] host.form = "private" -> {"PRIVATE_HOST_FORBIDDEN"}
      [] host.form = "junk"    -> {"INVALID_HOST_PATTERN"}
      [] OTHER                 -> {}

\* A pattern *.x admits the hosts below x.
HostMatchesAllowlist(name, hosts) ==
    \E i \in DOMAIN hosts : IF hosts[i].wild THEN IsStrictSuffix(hosts[i].name, name)
                            ELSE hosts[i].name = name

TextFault(texts) == \E text \in texts : text = "too long"

CredentialFaults(spec, schemas, hosts) ==
    When(\/ spec.providerId \notin PluginIds
         \/ ~Contains(schemas, spec.schemaId)
         \/ spec.format \notin {"text", "json"}
         \/ spec.label \in {"", "too long"} \/ TextFault(spec.placeholder) \/ TextFault(spec.help)
         \/ spec.policy \notin {"fixed", "allowlisted"}
         \/ spec.policy = "fixed" /\ spec.default = {}
         \/ \E url \in spec.default : url.scheme # "https" \/ ~HostMatchesAllowlist(url.host, hosts),
         "INVALID_CREDENTIAL_SPEC")

\* The contract of a model, as it is checked: with the defaults beside it.
ProbedContract(model, c) == [c EXCEPT !.defaults = model.defaults]

ModelFaults(kind, model) ==
    When(model.id = "", "EMPTY_MODEL_LIST")
    \cup (IF kind = "media" /\ model.id # ""
          THEN UNION {DeclarationFindings(ProbedContract(model, c)) : c \in model.capabilities} ELSE {})

HostListFaults(m)       == UNION {HostFaults(h) : h \in ToSet(m.allowedHosts)}
CredentialListFaults(m) == UNION {CredentialFaults(spec, m.credentialSchemas, m.allowedHosts) : spec \in m.credential}
ModelListFaults(m)      == UNION {ModelFaults(m.kind, model) : model \in ToSet(m.models)}

ManifestFaults(m) ==
    When(m.id \notin PluginIds, "INVALID_PLUGIN_ID")
    \cup When(m.version \notin PluginVersions, "INVALID_PLUGIN_VERSION")
    \cup When(m.kind \notin {"media", "language"}, "INVALID_PLUGIN_KIND")
    \cup When(m.displayName = "", "INVALID_DISPLAY_NAME")
    \cup When(m.allowedHosts = <<>>, "EMPTY_ALLOWED_HOSTS")
    \cup HostListFaults(m)
    \cup When(m.credentialSchemas = <<>> \/ ~(ToSet(m.credentialSchemas) \subseteq CredentialSchemas),
              "UNSUPPORTED_CREDENTIAL_SCHEMA")
    \cup CredentialListFaults(m)
    \cup When(m.models = <<>>, "EMPTY_MODEL_LIST")
    \cup ModelListFaults(m)
    \cup When(m.kind = "media" /\ (m.modalities = <<>> \/ ~(ToSet(m.modalities) \subseteq MediaModalities)),
              "INVALID_MODALITIES")
    \cup When(/\ m.kind = "language"
              /\ m.languageProtocols = <<>> \/ ~(ToSet(m.languageProtocols) \subseteq LanguageProtocols),
              "INVALID_LANGUAGE_PROTOCOLS")

\* What JSON makes of a number beyond its range, when it is written again.
Infinite == -1
Null     == -2

WithoutRepeats(s) == ElementsAt(s, {i \in DOMAIN s : \A j \in 1 .. i - 1 : s[j] # s[i]})
MediaOnly(s)      == ElementsAt(s, {i \in DOMAIN s : s[i] \in MediaModalities})

NormalizedModel(m, model) ==
    LET own == MediaOnly(model.modalities)
    IN [id           |-> model.id,
        modalities   |-> IF m.kind = "language" THEN <<>> ELSE IF own = <<>> THEN m.modalities ELSE own,
        limit        |-> model.limit \ {Null},
        capabilities |-> IF m.kind = "media" THEN model.capabilities ELSE {},
        defaults     |-> IF m.kind = "media"
                         THEN Restrict(model.defaults, {n \in DOMAIN model.defaults : model.defaults[n].kind # "nested"})
                         ELSE <<>>]

NormalizedCredential(spec) ==
    [spec EXCEPT !.padded = FALSE, !.placeholder = @ \ {""}, !.help = @ \ {""}]

\* The manifest of a plugin that is accepted: what is not known of is left behind.
NormalizedManifest(m) ==
    [id |-> m.id, version |-> m.version, kind |-> m.kind, displayName |-> m.displayName,
     padded            |-> FALSE,
     description       |-> m.description,
     allowedHosts      |-> WithoutRepeats([i \in DOMAIN m.allowedHosts |-> [m.allowedHosts[i] EXCEPT !.padded = FALSE]]),
     credentialSchemas |-> WithoutRepeats(m.credentialSchemas),
     credential        |-> {NormalizedCredential(spec) : spec \in m.credential},
     modalities        |-> IF m.kind = "media" THEN WithoutRepeats(m.modalities) ELSE <<>>,
     languageProtocols |-> IF m.kind = "language" THEN WithoutRepeats(m.languageProtocols) ELSE <<>>,
     models            |-> [i \in DOMAIN m.models |-> NormalizedModel(m, m.models[i])]]

\* A manifest once through JSON.
JsonModel(model) == [model EXCEPT !.limit = {IF n = Infinite THEN Null ELSE n : n \in model.limit}]
ThroughJson(m)   == [m EXCEPT !.models = [i \in DOMAIN m.models |-> JsonModel(m.models[i])]]

pluginCredentialProvider(m) == IF m.credential = {} THEN m.id
                               ELSE (CHOOSE spec \in m.credential : TRUE).providerId

-----------------------------------------------------------------------------
(* The rest of a package: its block in manifest.json, its icon and its documents.       *)

BlockFaults(p, b) ==
    LET missing == b.entry = <<>> \/ Last(b.entry) \notin MjsNames \/ b.entry \notin PathsOfClass(p, "code")
        svg     == \E i \in b.icon : Last(i) = "icon.svg"
        invalid == \/ b.unknown # {} \/ b.format # 1
                   \/ \E i \in b.icon : Last(i) # "icon.svg" /\ i \notin PathsOfClass(p, "icon")
                   \/ \E r \in b.readme : r \notin PathsOfClass(p, "doc")
                   \/ "malformed" \in b.license \cup b.author \cup b.homepage
    IN When(missing, "PLUGIN_PACKAGE_ENTRY_MISSING") \cup When(svg, "PLUGIN_PACKAGE_FORBIDDEN_FILE")
       \cup When(invalid, "PLUGIN_PACKAGE_INVALID")

\* An icon is read twice: its header, then every pixel of it.
IconHeaderFaults(path, icon) ==
    LET named == IF Last(path) \in PngNames THEN "png" ELSE "webp"
    IN IF icon.header # named \/ icon.animated THEN {"PLUGIN_PACKAGE_INVALID"}
       ELSE When(icon.edge \notin 1 .. MaxEdge, "PLUGIN_PACKAGE_TOO_LARGE")

decodePluginPackageIcon(icon) == When(~icon.decodes, "PLUGIN_PACKAGE_INVALID")

ResourceFaults(p, b) ==
    When(PathsOfClass(p, "icon") \ b.icon # {}, "PLUGIN_PACKAGE_FORBIDDEN_FILE")
    \cup (UNION {IconHeaderFaults(path, p.icon) : path \in b.icon})
    \cup When(PathsOfClass(p, "doc") # {} /\ p.doc # "text", "PLUGIN_PACKAGE_INVALID")

BundleFaults(p) == scanPluginSource(p.code.tokens) \cup ManifestFaults(p.manifest)

\* The steps after inflation, each stopping at its first faults.
ContentFaults(p) ==
    IF p.json # "object" THEN {"INVALID_PLUGIN_MANIFEST"}
    ELSE IF p.format = "mjs" THEN BundleFaults(p)
    ELSE IF p.block = {} THEN {"PLUGIN_PACKAGE_ENTRY_MISSING"}
    ELSE LET b == CHOOSE b \in p.block : TRUE
         IN IF BlockFaults(p, b) # {} THEN BlockFaults(p, b)
            ELSE IF BundleFaults(p) # {} THEN BundleFaults(p)
            ELSE IF ResourceFaults(p, b) # {} THEN ResourceFaults(p, b)
            ELSE UNION {decodePluginPackageIcon(p.icon) : path \in b.icon}

-----------------------------------------------------------------------------
(* The upload's envelope: a package alone, or a manifest and a file, nothing beside them.  *)

EnvelopeFaults(p) ==
    LET expected == IF p.format = "zip-v1" THEN {"package"} ELSE {"manifest", "file"}
    IN When(\/ ToSet(p.fields) # expected \/ Len(p.fields) # Cardinality(expected)
            \/ ~p.extension \/ p.bytes = 0 \/ p.json = "blank", "INVALID_INPUT")
       \cup When(p.format = "mjs" /\ p.bytes > MaxArtifact, "PLUGIN_ARTIFACT_TOO_LARGE")

\* A key of a shipped media plugin, or a credential provider of any shipped one, is taken.
ReservedFaults(m) ==
    When(<<m.id, m.version>> \in BuiltinMedia, "PLUGIN_ID_RESERVED")
    \cup When(pluginCredentialProvider(m) \in BuiltinProviders, "PROVIDER_ID_RESERVED")

\* jsonb and text columns take no NUL.
Unstorable(p) == p.nul

-----------------------------------------------------------------------------
(* The worker: the checks of one row and its bundle (plugins/loader.ts).                *)

RequiredFunctions(kind) ==
    IF kind = "media" THEN {"validateConfig", "validateRequest", "submit"} ELSE {"validateConfig", "complete"}
OptionalFunctions(kind) ==
    IF kind = "media" THEN {"poll", "cancel", "openOutput", "probe"} ELSE {"probe"}

ShapeFaults(exported) ==
    IF exported = {} THEN {"PLUGIN_NO_DEFAULT_EXPORT"}
    ELSE LET plugin == CHOOSE x \in exported : TRUE
         IN IF ManifestFaults(plugin.manifest) # {} THEN {"PLUGIN_MANIFEST_INVALID"}
            ELSE When(\/ ~(RequiredFunctions(plugin.manifest.kind) \subseteq plugin.functions)
                      \/ OptionalFunctions(plugin.manifest.kind) \cap plugin.others # {}, "PLUGIN_INTERFACE_INVALID")

IdentityFaults(row, m) ==
    IF m.kind # row.kind THEN {"PLUGIN_KIND_MISMATCH"}
    ELSE IF m.id # row.id THEN {"PLUGIN_ID_MISMATCH"}
    ELSE When(m.version # row.version, "PLUGIN_VERSION_MISMATCH")

\* Mutant: the stored manifest is compared as it was uploaded with the bundle's own.
ComparedUnnormalized(row, m) == When(row.manifest # ThroughJson(m), "PLUGIN_MANIFEST_MISMATCH")

\* The bundle must declare what the stored manifest declares, both validated and through JSON.
ManifestMismatch(row, m) ==
    When(\/ ManifestFaults(row.manifest) # {}
         \/ ThroughJson(NormalizedManifest(row.manifest)) # ThroughJson(NormalizedManifest(m)),
         "PLUGIN_MANIFEST_MISMATCH")

LoadFaults(row) ==
    LET reserved == <<row.id, row.version>> \in BuiltinMedia \cup BuiltinLanguage
        m        == (CHOOSE x \in row.code.exports : TRUE).manifest
    IN IF reserved THEN {"PLUGIN_RESERVED_KEY"}
       ELSE IF row.bytes > MaxArtifact THEN {"PLUGIN_ARTIFACT_TOO_LARGE"}
       ELSE IF scanPluginSource(row.code.tokens) # {} THEN {"PLUGIN_ARTIFACT_SCAN_FAILED"}
       ELSE IF row.code.import # "settles" THEN {"PLUGIN_IMPORT_FAILED"}
       ELSE IF ShapeFaults(row.code.exports) # {} THEN ShapeFaults(row.code.exports)
       ELSE IF IdentityFaults(row, m) # {} THEN IdentityFaults(row, m)
       ELSE IF row.format = "zip-v1" THEN ManifestMismatch(row, m)
       ELSE {}

-----------------------------------------------------------------------------
PackageTypeOK ==
    /\ pack.format \in {"zip-v1", "mjs"} /\ Len(unread) <= MaxEntries
    /\ examined \in {"received", "inflating", "read", "accepted", "installed", "loaded", "refused"}
    /\ held \in Nat /\ IsFiniteSet(catalogued) /\ Cardinality(catalogued) <= 1

PackageInit ==
    /\ pack \in Uploads
    /\ examined = "received" /\ unread = <<>> /\ held = 0 /\ catalogued = {} /\ loading = {}

readPluginUpload ==
    /\ examined = "received"
    /\ examined' = IF EnvelopeFaults(pack) # {} THEN "refused"
                   ELSE IF pack.format = "mjs" THEN "read"
                   ELSE IF OutlineFaults(pack) # {} THEN "refused" ELSE "inflating"
    /\ unread' = IF examined' = "inflating" THEN FilesOf(pack) ELSE <<>>
    /\ UNCHANGED <<pack, held, catalogued, loading>>

inflateEntry ==
    /\ examined = "inflating" /\ unread # <<>>
    /\ held' = held + Inflated(Head(unread))
    /\ unread' = Tail(unread)
    /\ examined' = IF InflateFaults(Head(unread)) # {} THEN "refused"
                   ELSE IF unread' = <<>> THEN "read" ELSE "inflating"
    /\ UNCHANGED <<pack, catalogued, loading>>

inspectContents ==
    /\ examined = "read"
    /\ examined' = IF ContentFaults(pack) = {} THEN "accepted" ELSE "refused"
    /\ UNCHANGED <<pack, unread, held, catalogued, loading>>

\* What is stored is the normalized manifest and the entry bundle.
installPlugin ==
    /\ examined = "accepted"
    /\ LET m      == NormalizedManifest(pack.manifest)
           stored == ReservedFaults(m) = {} /\ ~Unstorable(pack)
           entry  == IF pack.format = "mjs" THEN pack.bytes
                     ELSE FileAt(pack, (CHOOSE b \in pack.block : TRUE).entry).usize
       IN /\ examined' = IF stored THEN "installed" ELSE "refused"
          /\ catalogued' = IF stored
                           THEN {[id |-> m.id, version |-> m.version, kind |-> m.kind, format |-> pack.format,
                                  bytes |-> entry, manifest |-> ThroughJson(m), code |-> pack.code]}
                           ELSE {}
    /\ UNCHANGED <<pack, unread, held, loading>>

loadPluginRow ==
    /\ examined = "installed"
    /\ \E row \in catalogued : loading' = LoadFaults(row)
    /\ examined' = "loaded"
    /\ UNCHANGED <<pack, unread, held, catalogued>>

PackageNext ==
    \/ readPluginUpload \/ inflateEntry \/ inspectContents \/ installPlugin \/ loadPluginRow

PackageSpec == PackageInit /\ [][PackageNext]_packageVars

-----------------------------------------------------------------------------
(* What a tool that extracts an accepted package writes.  A file system may tell capitals     *)
(* apart or not.                                                                         *)

PlaceOf(name) ==
    FoldLeft(LAMBDA at, segment :
                 CASE segment \in {"", "."} -> at
                   [] segment = ".."        -> IF at = <<>> THEN <<"outside">> ELSE Front(at)
                   [] OTHER                 -> Append(at, segment), <<>>, name)

\* A file replaces what is at its place and below, and is not written below a file.
WriteFile(files, at, e) ==
    IF \E path \in DOMAIN files : IsStrictPrefix(path, at) THEN files
    ELSE (at :> e) @@ Restrict(files, {path \in DOMAIN files : ~IsPrefix(at, path)})

Extracted(p, Case(_)) ==
    FoldLeft(LAMBDA files, e : IF e.dir THEN files ELSE WriteFile(files, Case(PlaceOf(e.local.name)), e),
             <<>>, p.entries)

FilesWritten(p, Case(_)) == {e \in Range(Extracted(p, Case)) : ~IsIgnoredPackagePath(e.name)}

Finite(m) == \A i \in DOMAIN m.models : Infinite \notin m.models[i].limit

\* The bundle is what the manifest says it is.
Honest(p) ==
    /\ p.code.import = "settles" /\ Finite(p.manifest)
    /\ p.code.exports = {[manifest  |-> p.manifest, others |-> {},
                          functions |-> RequiredFunctions(p.manifest.kind)]}

\* An archive that lies about its sizes never makes the API hold more than the limit of an
\* unpacked package, and the files that were inspected are the files, and the only ones, that
\* any other tool finds in the same archive (inflateEntry, readPluginZipDirectory, foldPath).
PackageContained ==
    /\ held <= MaxUnpacked
    /\ pack.format = "zip-v1" /\ examined \in {"accepted", "installed", "loaded"} =>
           /\ FilesWritten(pack, LAMBDA name : name) = ToSet(FilesOf(pack))
           /\ FilesWritten(pack, Lowered) = ToSet(FilesOf(pack))

\* A plugin that was installed and whose bundle exports the plugin its manifest describes is
\* loaded by a worker: two validations, a normalization and JSON between them agree.  The
\* keys of shipped language plugins, which only the worker refuses, are excepted.
AcceptedLoads ==
    \A row \in catalogued :
        Honest(pack) /\ <<row.id, row.version>> \notin BuiltinLanguage => loading = {}
=============================================================================
