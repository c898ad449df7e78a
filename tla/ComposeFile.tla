---------------------------- MODULE ComposeFile ----------------------------
(***************************************************************************)
(* From the nodes of a YAML document to a parsed project: the adapter of   *)
(* crates/susun-loader, parser/adapter.rs.                                 *)
(*                                                                         *)
(* A node is a scalar with its text, a scalar YAML gives another type (a   *)
(* number, a boolean, null), a sequence, or a mapping with its fields in   *)
(* order; a tag may be around it.  What a service declares is a function   *)
(* from slots to values (decl) and, for what is listed, sequences (lists). *)
(***************************************************************************)
EXTENDS Environment, TLC

Scalar(t) == [kind |-> "text", text |-> t]
TypedScalar == [kind |-> "typed"]
Items(s) == [kind |-> "sequence", items |-> s]
Mapping(f) == [kind |-> "mapping", fields |-> f]
Tagged(tag, n) == [kind |-> "tagged", tag |-> tag, node |-> n]

untagged(n) == IF n.kind = "tagged" THEN n.node ELSE n

\* All that f holds, and what g holds besides.
Over(f, g) == [x \in DOMAIN f \cup DOMAIN g |-> IF x \in DOMAIN f THEN f[x] ELSE g[x]]

\* All that functions hold whose domains have nothing in common.
Together(F) == [x \in UNION {DOMAIN f : f \in F} |-> (CHOOSE f \in F : x \in DOMAIN f)[x]]

\* None of the functions keep a field, item or key that is not of the right form.
Keep(f) == [x \in {y \in DOMAIN f : f[y] # Absent} |-> f[x]]
KeepItems(s) == ItemsAt(s, {i \in DOMAIN s : s[i] # Absent})

Fields(n) == IF untagged(n).kind = "mapping" THEN untagged(n).fields ELSE <<>>
ItemsOf(n) == IF untagged(n).kind = "sequence" THEN untagged(n).items ELSE <<>>
Keys(n) == {Fields(n)[i][1] : i \in DOMAIN Fields(n)}
Field(n, key) ==
  LET at == {i \in DOMAIN Fields(n) : Fields(n)[i][1] = key}
  IN  IF at = {} THEN Absent ELSE Fields(n)[Min(at)][2]

\* What an optional value is taken for, and what stands for one that is not there.
ValueOr(value, Parse(_), default) == IF value = Absent THEN default ELSE Parse(value)

(* Only a scalar YAML reads as a string has a text.                        *)
node_as_str(n) == IF n = Absent \/ untagged(n).kind # "text" THEN Absent ELSE untagged(n).text

interpolated_spanned(n, layers) == ValueOr(node_as_str(n), LAMBDA t : interpolate(t, layers), Absent)

(* The named fields of a mapping that are strings.                         *)
StringFields(n, names, layers) ==
  [name \in names |-> interpolated_spanned(Field(n, name), layers)]

parse_string_sequence(n, layers) ==
  KeepItems([i \in DOMAIN ItemsOf(n) |-> interpolated_spanned(ItemsOf(n)[i], layers)])

parse_string_or_list(n, layers) ==
  IF untagged(n).kind = "sequence" THEN [form |-> "list", items |-> parse_string_sequence(n, layers)]
  ELSE IF interpolated_spanned(n, layers) = Absent THEN Absent
  ELSE [form |-> "string", text |-> interpolated_spanned(n, layers)]

-----------------------------------------------------------------------------
\* The text before and after the first "=", which is Absent without one.
Before(t, sep) == IF \E i \in DOMAIN t : t[i] = sep
                  THEN SubSeq(t, 1, Min({i \in DOMAIN t : t[i] = sep}) - 1) ELSE t
After(t, sep) == IF \E i \in DOMAIN t : t[i] = sep
                 THEN SubSeq(t, Min({i \in DOMAIN t : t[i] = sep}) + 1, Len(t)) ELSE Absent

(* Entries "KEY=value" as a mapping; the last of a key wins.               *)
EntriesToMap(entries) ==
  [key \in {Before(entries[i], "=") : i \in DOMAIN entries} |->
     After(entries[Max({i \in DOMAIN entries : Before(entries[i], "=") = key})], "=")]

(* Either form of environment, labels and build arguments as a mapping.    *)
parse_mapping(n, layers) ==
  IF untagged(n).kind = "mapping"
  THEN [key \in {<<k>> : k \in Keys(n) \ {Absent}} |-> interpolated_spanned(Field(n, key[1]), layers)]
  ELSE EntriesToMap(parse_string_sequence(n, layers))

(* A mapping from names, or a plain list of names with default values.     *)
NamedEntries(n, Entry(_), layers) ==
  IF untagged(n).kind = "mapping"
  THEN [name \in {<<k>> : k \in Keys(n) \ {Absent}} |-> Entry(Field(n, name[1]))]
  ELSE [name \in Range(parse_string_sequence(n, layers)) |-> Entry(Mapping(<<>>))]

parse_dependency(n, layers) == StringFields(n, {"condition", "restart", "required"}, layers)

parse_depends_on(n, layers) == NamedEntries(n, LAMBDA d : parse_dependency(d, layers), layers)

parse_network_attachment(n, layers) ==
  [aliases |-> IF Field(n, "aliases") = Absent THEN <<>>
               ELSE parse_string_sequence(Field(n, "aliases"), layers)]

parse_service_networks(n, layers) ==
  NamedEntries(n, LAMBDA a : parse_network_attachment(a, layers), layers)

(* Listed entries, each a mapping of fields or a text.                     *)
Entries(n, names, layers) ==
  KeepItems([i \in DOMAIN ItemsOf(n) |->
    LET item == ItemsOf(n)[i]
    IN  IF untagged(item).kind = "mapping"
        THEN [form |-> "long", fields |-> StringFields(item, names, layers)]
        ELSE IF interpolated_spanned(item, layers) = Absent THEN Absent
        ELSE [form |-> "short", text |-> interpolated_spanned(item, layers)]])

parse_ports(n, layers) == Entries(n, {"target", "published", "host_ip", "protocol"}, layers)

parse_volumes(n, layers) == Entries(n, {"type", "source", "target", "read_only"}, layers)

(* Mounts of configs and secrets; one without a source is no mount.        *)
parse_resource_mounts(n, layers) ==
  LET parsed == Entries(n, {"source", "target", "uid", "gid", "mode"}, layers)
      mount(e) == IF e.form = "short" THEN [source |-> e.text, target |-> Absent]
                  ELSE IF e.fields["source"] = Absent THEN Absent
                  ELSE [source |-> e.fields["source"], target |-> e.fields["target"]]
  IN  KeepItems([i \in DOMAIN parsed |-> mount(parsed[i])])

parse_healthcheck(n, layers) ==
  IF untagged(n).kind # "mapping" THEN Absent
  ELSE [test |-> IF Field(n, "test") = Absent THEN Absent ELSE parse_string_or_list(Field(n, "test"), layers),
        settings |-> StringFields(n, {"interval", "timeout", "start_period", "retries", "disable"}, layers)]

parse_extends(n, layers) ==
  IF untagged(n).kind = "mapping" THEN interpolated_spanned(Field(n, "service"), layers)
  ELSE interpolated_spanned(n, layers)

(* A secret or SSH identity of a build: its id, or else its source.        *)
parse_build_identities(n, layers) ==
  LET identity(item) ==
        IF untagged(item).kind # "mapping" THEN interpolated_spanned(item, layers)
        ELSE LET id == interpolated_spanned(Field(item, "id"), layers)
             IN  IF id # Absent THEN id ELSE interpolated_spanned(Field(item, "source"), layers)
  IN  KeepItems([i \in DOMAIN ItemsOf(n) |-> identity(ItemsOf(n)[i])])

\* The parsed value of a field, or what stands for a field that is not there.
FieldOr(n, key, Parse(_), default) == ValueOr(Field(n, key), Parse, default)

NoBuild == [strings |-> [f \in {"context", "dockerfile", "target"} |-> Absent], args |-> <<>>,
            lists |-> [f \in {"platforms", "cache_from", "cache_to", "secrets", "ssh"} |-> <<>>]]

(* A build is its context, or a mapping with the parts that are known.     *)
parse_build(n, layers) ==
  LET list(key) == FieldOr(n, key, LAMBDA v : parse_string_sequence(v, layers), <<>>)
      ids(key) == FieldOr(n, key, LAMBDA v : parse_build_identities(v, layers), <<>>)
  IN  IF untagged(n).kind = "mapping"
      THEN [strings |-> StringFields(n, {"context", "dockerfile", "target"}, layers),
            args |-> FieldOr(n, "args", LAMBDA v : parse_mapping(v, layers), <<>>),
            lists |-> Over([f \in {"platforms", "cache_from", "cache_to"} |-> list(f)],
                           [f \in {"secrets", "ssh"} |-> ids(f)])]
      ELSE IF interpolated_spanned(n, layers) = Absent THEN Absent
      ELSE [NoBuild EXCEPT !.strings["context"] = interpolated_spanned(n, layers)]

-----------------------------------------------------------------------------
ListFields == {"ports", "volumes", "configs", "secrets"}

EmptyService == [tag |-> "merge", decl |-> <<>>, lists |-> [f \in ListFields |-> <<>>]]

merge_tag_from_yaml(n) ==
  IF n.kind = "tagged" /\ n.tag \in {"reset", "override"} THEN n.tag ELSE "merge"

\* The slots of a field whose values are kept by key.
Keyed(field, f) == [slot \in {<<field, k>> : k \in DOMAIN f} |-> f[slot[2]]]

\* The slot of a field that has one value, if it has.
Single(field, value) == IF value = Absent THEN <<>> ELSE [slot \in {<<field>>} |-> value]

(* A service as one file declares it.  Fields the table does not know are  *)
(* passed over, and what is no mapping declares nothing and has no tag.    *)
parse_service(n, layers) ==
  LET scalar(key) == Single(key, interpolated_spanned(Field(n, key), layers))
      command(key) == Single(key, FieldOr(n, key, LAMBDA v : parse_string_or_list(v, layers), Absent))
      mapping(key) == Keyed(key, FieldOr(n, key, LAMBDA v : parse_mapping(v, layers), <<>>))
      profiles == FieldOr(n, "profiles", LAMBDA v : parse_string_sequence(v, layers), <<>>)
  IN  IF untagged(n).kind # "mapping" THEN EmptyService
      ELSE [tag |-> merge_tag_from_yaml(n),
            decl |-> Together({
              scalar("image"), scalar("restart"), command("command"), command("entrypoint"),
              mapping("environment"), mapping("labels"),
              Single("build", FieldOr(n, "build", LAMBDA v : parse_build(v, layers), Absent)),
              Single("extends", FieldOr(n, "extends", LAMBDA v : parse_extends(v, layers), Absent)),
              Single("healthcheck", FieldOr(n, "healthcheck", LAMBDA v : parse_healthcheck(v, layers), Absent)),
              Single("profiles", IF profiles = <<>> THEN Absent ELSE profiles),
              Keyed("depends_on", FieldOr(n, "depends_on", LAMBDA v : parse_depends_on(v, layers), <<>>)),
              Keyed("networks", FieldOr(n, "networks", LAMBDA v : parse_service_networks(v, layers), <<>>))}),
            lists |-> [ports |-> FieldOr(n, "ports", LAMBDA v : parse_ports(v, layers), <<>>),
                       volumes |-> FieldOr(n, "volumes", LAMBDA v : parse_volumes(v, layers), <<>>),
                       configs |-> FieldOr(n, "configs", LAMBDA v : parse_resource_mounts(v, layers), <<>>),
                       secrets |-> FieldOr(n, "secrets", LAMBDA v : parse_resource_mounts(v, layers), <<>>)]]

parse_services(n, layers) ==
  LET named == ItemsAt(Fields(n), {i \in DOMAIN Fields(n) : Fields(n)[i][1] # Absent})
  IN  [i \in DOMAIN named |-> <<<<named[i][1]>>, parse_service(named[i][2], layers)>>]

parse_resources(n, layers) ==
  [name \in {<<k>> : k \in Keys(n) \ {Absent}} |->
     Over([external |-> node_as_str(Field(Field(n, name[1]), "external"))],
          StringFields(Field(n, name[1]), {"name", "file"}, layers))]

parse_includes(n, layers) ==
  LET path(item) == IF untagged(item).kind = "mapping" THEN interpolated_spanned(Field(item, "path"), layers)
                    ELSE interpolated_spanned(item, layers)
  IN  IF untagged(n).kind = "sequence" THEN KeepItems([i \in DOMAIN ItemsOf(n) |-> path(ItemsOf(n)[i])])
      ELSE KeepItems(<<path(n)>>)

Resources == {"networks", "volumes", "configs", "secrets"}

(* The project of a document that is a mapping.                            *)
ProjectOf(doc, layers) ==
  [name |-> interpolated_spanned(Field(doc, "name"), layers),
   includes |-> FieldOr(doc, "include", LAMBDA v : parse_includes(v, layers), <<>>),
   services |-> FieldOr(doc, "services", LAMBDA v : parse_services(v, layers), <<>>),
   resources |-> [r \in Resources |-> FieldOr(doc, r, LAMBDA v : parse_resources(v, layers), <<>>)]]

(* A file's text as YAML gives it: malformed, or a sequence of documents.  *)
(* Nothing at all is an empty project; what cannot be one gives <<>>.      *)
ParsedFile(yaml, layers) ==
  LET documents == IF yaml = <<>> THEN <<Mapping(<<>>)>> ELSE yaml
  IN  IF yaml = Absent \/ Len(yaml) > 1 THEN <<>>
      ELSE IF untagged(documents[1]).kind # "mapping" THEN <<>>
      ELSE ProjectOf(documents[1], layers)

-----------------------------------------------------------------------------
(* What the report says of a file: "other" stands for every field no table *)
(* knows.                                                                  *)
Deferred == {"deploy", "develop", "watch"}
UnreadFields == {"external", "other"} \cup Deferred
MaxNesting == 5

Children(n) ==
  Range(ItemsOf(n)) \cup {f[2] : f \in {g \in Range(Fields(n)) : g[1] \notin UnreadFields}}

\* The nodes of a document in fields that may be read.
Nodes(doc) ==
  LET level[k \in 0..MaxNesting] ==
        IF k = 0 THEN {doc} ELSE UNION {Children(m) : m \in level[k - 1]}
  IN  UNION Range(level)

(* A node the YAML parser makes: what it lists is a sequence, and no key   *)
(* of a mapping comes twice.                                               *)
IsList(s) == s \in Seq(Range(s))

IsNode(n) ==
  /\ IsList(ItemsOf(n)) /\ IsList(Fields(n))
  /\ \A i, j \in DOMAIN Fields(n) :
       Fields(n)[i][1] = Fields(n)[j][1] => i = j \/ Fields(n)[i][1] = Absent

IsYaml(yaml) == yaml = Absent \/ (IsList(yaml) /\ \A i \in DOMAIN yaml : \A n \in Nodes(yaml[i]) : IsNode(n))

(* The texts of a document that are interpolated: those the parsers above  *)
(* read, where each expects them.  What is in the place of a mapping or a  *)
(* sequence and is none is not read.                                       *)
Part(n, key) == FieldOr(n, key, LAMBDA v : v, Mapping(<<>>))
Parts(n) == {Part(n, key) : key \in Keys(n) \ {Absent}}

TextOf(n) == {node_as_str(n)} \ {Absent}
TextsAt(n, names) == UNION {TextOf(Part(n, name)) : name \in names}
ItemTexts(n) == UNION {TextOf(item) : item \in Range(ItemsOf(n))}
EntryTexts(n, names) == UNION {TextOf(item) \cup TextsAt(item, names) : item \in Range(ItemsOf(n))}
MappingTexts(n) == ItemTexts(n) \cup UNION {TextOf(part) : part \in Parts(n)}

BuildTexts(n) ==
  TextOf(n) \cup TextsAt(n, {"context", "dockerfile", "target"}) \cup MappingTexts(Part(n, "args"))
    \cup UNION {ItemTexts(Part(n, key)) : key \in {"platforms", "cache_from", "cache_to"}}
    \cup UNION {EntryTexts(Part(n, key), {"id", "source"}) : key \in {"secrets", "ssh"}}

ServiceTexts(n) ==
  LET test == Part(Part(n, "healthcheck"), "test")
      named == {Part(n, "depends_on"), Part(n, "networks")}
  IN  TextsAt(n, {"image", "restart", "command", "entrypoint", "extends"})
        \cup TextsAt(Part(n, "extends"), {"service", "file"})
        \cup TextsAt(Part(n, "healthcheck"), {"interval", "timeout", "start_period", "retries", "disable"})
        \cup TextOf(test) \cup ItemTexts(test) \cup BuildTexts(Part(n, "build"))
        \cup UNION {ItemTexts(x) : x \in named \cup {Part(n, key) : key \in {"command", "entrypoint", "profiles"}}}
        \cup UNION {MappingTexts(Part(n, key)) : key \in {"environment", "labels"}}
        \cup UNION {TextsAt(d, {"condition", "restart", "required"}) : d \in Parts(Part(n, "depends_on"))}
        \cup UNION {ItemTexts(Part(a, "aliases")) : a \in Parts(Part(n, "networks"))}
        \cup EntryTexts(Part(n, "ports"), {"target", "published", "host_ip", "protocol", "mode"})
        \cup EntryTexts(Part(n, "volumes"), {"type", "source", "target", "read_only"})
        \cup UNION {EntryTexts(Part(n, key), {"source", "target", "uid", "gid", "mode"}) : key \in {"configs", "secrets"}}

InterpolatedTexts(doc) ==
  LET include == Part(doc, "include")
  IN  TextsAt(doc, {"name", "include"}) \cup TextsAt(include, {"path"}) \cup EntryTexts(include, {"path"})
        \cup UNION {ServiceTexts(n) : n \in Parts(Part(doc, "services"))}
        \cup UNION {TextsAt(d, {"name", "file"}) : d \in UNION {Parts(Part(doc, r)) : r \in Resources}}

ParseProblems(yaml, layers) ==
  IF yaml = Absent THEN {<<"SUS-PARSE-001">>}
  ELSE IF Len(yaml) > 1 THEN {<<"SUS-PARSE-003">>}
  ELSE IF yaml = <<>> THEN {}
  ELSE IF untagged(yaml[1]).kind # "mapping" THEN {<<"SUS-PARSE-010">>}
  ELSE {<<"SUS-PARSE-011", k>> : k \in Keys(yaml[1]) \cap ({"other"} \cup Deferred)}
         \cup {<<"SUS-CAP-001", k>> : k \in UNION {Keys(n) : n \in Parts(Part(yaml[1], "services"))} \cap Deferred}
         \cup UNION {InterpolationProblems(t, layers) : t \in InterpolatedTexts(yaml[1])}
=============================================================================
