---------------------------- MODULE ConfigRules -----------------------------
(***************************************************************************)
(* load_config (config.py): a YAML document, the VERILOAD_ variables of    *)
(* the environment and the overrides of the command line are merged and    *)
(* validated, first field by field, then as a whole.                       *)
(*                                                                         *)
(* A document is a function from paths, sequences of keys, to values; no   *)
(* path of a document extends another.  A value is a record: its type and  *)
(* a number that tells values of this type apart.  Sections that only      *)
(* hold data for later (cleanup, slo, the locales) are left out, and so    *)
(* are fractions and numbers written as quoted text.                       *)
(***************************************************************************)
EXTENDS Integers, Sequences, FiniteSets, SequencesExt

Number(n) == [type |-> "int", v |-> n]
Bool(n) == [type |-> "bool", v |-> n]    \* True is 1, False is 0
Text(n) == [type |-> "str", v |-> n]     \* hosts, names and paths
Hosts(n) == [type |-> "list", v |-> n]   \* the list of the host n alone
Null == [type |-> "null", v |-> 0]

-----------------------------------------------------------------------------
(* Documents. *)

\* One path leads to or through the other.
Comparable(p, q) == IsPrefix(p, q) \/ IsPrefix(q, p)

Empty == [p \in {} |-> Null]

\* _set_nested: a value in the place of a section, or the other way round, drops it.
SetNested(doc, path, value) ==
  [p \in {q \in DOMAIN doc : ~Comparable(q, path)} \cup {path} |->
     IF p = path THEN value ELSE doc[p]]

\* Mutant: the left side wins.
DeepMerge_Left(left, right) ==
  [p \in DOMAIN left \cup {q \in DOMAIN right : \A r \in DOMAIN left : ~Comparable(q, r)} |->
     IF p \in DOMAIN left THEN left[p] ELSE right[p]]

\* _deep_merge: sections are merged, everything else is replaced by the right side.
DeepMerge(left, right) ==
  [p \in DOMAIN right \cup {q \in DOMAIN left : \A r \in DOMAIN right : ~Comparable(q, r)} |->
     IF p \in DOMAIN right THEN right[p] ELSE left[p]]

\* _parse_scalar of the text of a variable, which is a word, digits, or a truth value.
ParseScalar(text) ==
  CASE text.shape = "truth" -> Bool(text.v)
    [] text.shape = "digits" -> Number(text.v)
    [] text.shape = "word" -> Text(text.v)

\* _env_overrides: every variable with the prefix, in the order of the environment.
EnvOverrides(env) ==
  FoldLeft(LAMBDA doc, var : SetNested(doc, var.path, ParseScalar(var.text)), Empty, env)

\* _dotted_overrides
DottedOverrides(cli) ==
  FoldLeft(LAMBDA doc, o : SetNested(doc, o.path, o.value), Empty, cli)

-----------------------------------------------------------------------------
(* The models: the fields of the sections with their types. *)

Field(type, least, required) == [type |-> type, least |-> least, required |-> required]

RunConfig ==
  [f \in {"base_url", "users", "spawn_rate", "max_duration_seconds"} |->
     IF f = "base_url" THEN Field("text", 0, FALSE) ELSE Field("number", 1, TRUE)]

DataConfig ==
  [f \in {"pool_size", "seed"} |-> Field("number", IF f = "seed" THEN 0 ELSE 1, TRUE)]

LoadProfileConfig ==
  [f \in {"type", "target_users", "duration_seconds", "hold_seconds", "tick_seconds"} |->
     CASE f = "type" -> Field("text", 0, TRUE)
       [] f = "duration_seconds" -> Field("number", 1, TRUE)
       [] f = "tick_seconds" -> Field("number", 0, FALSE)
       [] OTHER -> Field("number", 1, FALSE)]

SafetyConfig ==
  [f \in {"allowed_hosts", "max_users", "max_rps", "stop_file"} |->
     CASE f = "allowed_hosts" -> Field("hosts", 0, TRUE)
       [] f = "stop_file" -> Field("text", 0, FALSE)
       [] OTHER -> Field("number", 1, FALSE)]

ReportsConfig == [f \in {"json", "junit", "trace", "replay"} |-> Field("text", 0, FALSE)]

Sections == [run |-> RunConfig, data |-> DataConfig, profile |-> LoadProfileConfig,
             safety |-> SafetyConfig, reports |-> ReportsConfig]
Required == {"run", "data", "profile", "safety"}

Fields == UNION {{<<s, f>> : f \in DOMAIN Sections[s]} : s \in DOMAIN Sections}
FieldAt(p) == Sections[p[1]][p[2]]

\* An optional field may be null, one with a default may not.
HasDefault == {<<"profile", "tick_seconds">>}

Accepts(p, value) ==
  LET field == FieldAt(p)
  IN \/ field.type = "number" /\ value.type \in {"int", "bool"} /\ value.v >= field.least
     \/ field.type = "text" /\ value.type = "str"
     \/ field.type = "hosts" /\ value.type = "list"
     \/ value = Null /\ ~field.required /\ p \notin HasDefault

Given(doc, p) == p \in DOMAIN doc /\ doc[p] # Null

\* Field by field: unknown keys are forbidden, required ones not missing.
FieldsValid(doc) ==
  /\ DOMAIN doc \subseteq Fields
  /\ \A p \in DOMAIN doc : Accepts(p, doc[p])
  /\ \A s \in Required : \A f \in DOMAIN Sections[s] :
       Sections[s][f].required => <<s, f>> \in DOMAIN doc

Users == <<"run", "users">>
TargetUsers == <<"profile", "target_users">>

\* default_profile_target_users, before anything is validated; a profile that is not a
\* section is left alone.
WithTargetUsers(doc) ==
  IF /\ Given(doc, Users) /\ ~Given(doc, TargetUsers)
     /\ \E p \in DOMAIN doc : Len(p) > 1 /\ p[1] = "profile"
  THEN SetNested(doc, TargetUsers, doc[Users])
  ELSE doc

AtMost(doc, p, q) == Given(doc, p) /\ Given(doc, q) => doc[p].v <= doc[q].v

\* validate_runtime_contract; a host is its number.  A database instead of a base_url is
\* left out.
ContractValid(doc) ==
  /\ Given(doc, <<"run", "base_url">>)
  /\ doc[<<"run", "base_url">>].v = doc[<<"safety", "allowed_hosts">>].v
  /\ AtMost(doc, Users, <<"safety", "max_users">>)
  /\ AtMost(doc, <<"run", "spawn_rate">>, <<"safety", "max_rps">>)
  /\ Given(doc, TargetUsers) /\ doc[TargetUsers].v = doc[Users].v
  /\ AtMost(doc, <<"profile", "duration_seconds">>, <<"run", "max_duration_seconds">>)
  /\ AtMost(doc, <<"profile", "hold_seconds">>, <<"run", "max_duration_seconds">>)

\* VeriLoadConfig.model_validate
Valid(doc) == FieldsValid(doc) /\ ContractValid(doc)

\* Mutant: the contract is checked on the file, before the overrides.
LoadConfig_FileContract(yaml, env, cli) ==
  LET doc == WithTargetUsers(DeepMerge(DeepMerge(yaml, EnvOverrides(env)), DottedOverrides(cli)))
  IN [ok |-> FieldsValid(doc) /\ Valid(WithTargetUsers(yaml)), doc |-> doc]

\* load_config: the config, if it is valid.
LoadConfig(yaml, env, cli) ==
  LET doc == WithTargetUsers(DeepMerge(DeepMerge(yaml, EnvOverrides(env)), DottedOverrides(cli)))
  IN [ok |-> Valid(doc), doc |-> doc]

=============================================================================
