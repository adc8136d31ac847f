----------------------------- MODULE Rules_proofs -----------------------------
(***************************************************************************)
(* What load_config (config.py) makes of its layers, for every list of     *)
(* variables: no layer gets a run past the safety limits, and the last     *)
(* layer that gives a field decides it.  A layer is the fold of the values *)
(* that it sets; the lemmas give what one SetNested, one DeepMerge and the *)
(* whole fold keep.  What a plan promises, for every pool, any number of   *)
(* users and workers, and any weights: it is fair.  And what the summary,  *)
(* the gate and a comparison say, for any number of events.                *)
(***************************************************************************)
EXTENDS Rules, PlanMath_proofs

-----------------------------------------------------------------------------
(* Paths: which one leads to or through which other. *)

\* The beginning of a path.
LEMMA Beginning ==
  ASSUME NEW S, NEW p \in Seq(S), NEW q \in Seq(S), NEW n \in Nat, n <= Len(p), n <= Len(q)
  PROVE  SubSeq(p, 1, n) = SubSeq(q, 1, n) <=> \A i \in 1..n : p[i] = q[i]
<1>1. /\ SubSeq(p, 1, n) \in Seq(S) /\ Len(SubSeq(p, 1, n)) = n
      /\ \A i \in 1..n : SubSeq(p, 1, n)[i] = p[i]
  <2>1. /\ Len(p) \in Nat /\ 1 \in 1..Len(p) + 1 /\ n \in (1 - 1)..Len(p)
        /\ \A i \in 1..n : 1 + i - 1 = i
        /\ n - 1 + 1 = n
    OBVIOUS
  <2> QED BY <2>1, SubSeqProperties
<1>2. /\ SubSeq(q, 1, n) \in Seq(S) /\ Len(SubSeq(q, 1, n)) = n
      /\ \A i \in 1..n : SubSeq(q, 1, n)[i] = q[i]
  <2>1. /\ Len(q) \in Nat /\ 1 \in 1..Len(q) + 1 /\ n \in (1 - 1)..Len(q)
        /\ \A i \in 1..n : 1 + i - 1 = i
        /\ n - 1 + 1 = n
    OBVIOUS
  <2> QED BY <2>1, SubSeqProperties
<1>3. ASSUME \A i \in 1..n : p[i] = q[i] PROVE SubSeq(p, 1, n) = SubSeq(q, 1, n)
  BY <1>1, <1>2, <1>3, SeqEqual
<1> QED BY <1>1, <1>2, <1>3

\* Comparable paths.
LEMMA ComparableIs ==
  ASSUME NEW S, NEW p \in Seq(S), NEW q \in Seq(S)
  PROVE  Comparable(p, q) <=> \/ Len(p) <= Len(q) /\ \A i \in 1..Len(p) : p[i] = q[i]
                              \/ Len(q) <= Len(p) /\ \A i \in 1..Len(q) : p[i] = q[i]
BY Beginning DEF Comparable, IsPrefix

\* Paths of one or two keys.
LEMMA ComparableShort ==
  ASSUME NEW S, NEW p \in Seq(S), NEW q \in Seq(S)
  PROVE  /\ Len(p) = 2 /\ Len(q) = 2 => (Comparable(p, q) <=> p[1] = q[1] /\ p[2] = q[2])
         /\ Len(p) = 1 /\ Len(q) \in {1, 2} => (Comparable(p, q) <=> p[1] = q[1])
         /\ Len(p) \in {1, 2} /\ Len(q) = 1 => (Comparable(p, q) <=> p[1] = q[1])
<1>1. 1..1 = {1} /\ 1..2 = {1, 2} /\ 1 <= 2 /\ 1 <= 1 /\ 2 <= 2 /\ ~(2 <= 1)
  OBVIOUS
<1>2. ASSUME Len(p) = 2, Len(q) = 2 PROVE Comparable(p, q) <=> p[1] = q[1] /\ p[2] = q[2]
  BY <1>1, <1>2, ComparableIs
<1>3. ASSUME Len(p) = 1, Len(q) \in {1, 2} PROVE Comparable(p, q) <=> p[1] = q[1]
  <2>1. (\A i \in 1..Len(p) : p[i] = q[i]) <=> p[1] = q[1]
    BY <1>1, <1>3
  <2>2. Len(p) <= Len(q) /\ (Len(q) <= Len(p) => 1..Len(q) = 1..Len(p))
    BY <1>3
  <2> QED BY <2>1, <2>2, ComparableIs
<1>4. ASSUME Len(p) \in {1, 2}, Len(q) = 1 PROVE Comparable(p, q) <=> p[1] = q[1]
  <2>1. (\A i \in 1..Len(q) : p[i] = q[i]) <=> p[1] = q[1]
    BY <1>1, <1>4
  <2>2. Len(q) <= Len(p) /\ (Len(p) <= Len(q) => 1..Len(p) = 1..Len(q))
    BY <1>4
  <2> QED BY <2>1, <2>2, ComparableIs
<1> QED BY <1>2, <1>3, <1>4

\* Two fields are comparable only if they are the same.
LEMMA ComparableFields ==
  ASSUME NEW a, NEW b, NEW c, NEW d
  PROVE  Comparable(<<a, b>>, <<c, d>>) <=> <<a, b>> = <<c, d>>
<1> DEFINE S == {a, b, c, d}
<1>1. /\ <<a, b>> \in Seq(S) /\ Len(<<a, b>>) = 2 /\ <<a, b>>[1] = a /\ <<a, b>>[2] = b
      /\ <<c, d>> \in Seq(S) /\ Len(<<c, d>>) = 2 /\ <<c, d>>[1] = c /\ <<c, d>>[2] = d
  OBVIOUS
<1> HIDE DEF S
<1>2. Comparable(<<a, b>>, <<c, d>>) <=> <<a, b>>[1] = <<c, d>>[1] /\ <<a, b>>[2] = <<c, d>>[2]
  BY <1>1, ComparableShort
<1>3. Comparable(<<a, b>>, <<c, d>>) <=> a = c /\ b = d
  BY <1>1, <1>2
<1>4. <<a, b>> = <<c, d>> => <<a, b>>[1] = <<c, d>>[1] /\ <<a, b>>[2] = <<c, d>>[2]
  OBVIOUS
<1> QED BY <1>2, <1>3, <1>4

\* A section is comparable to its fields.
LEMMA ComparableSection ==
  ASSUME NEW a, NEW c, NEW d
  PROVE  /\ Comparable(<<a>>, <<c, d>>) <=> a = c
         /\ Comparable(<<c, d>>, <<a>>) <=> a = c
<1> DEFINE S == {a, c, d}
<1>1. /\ <<c, d>> \in Seq(S) /\ Len(<<c, d>>) = 2 /\ <<c, d>>[1] = c
      /\ <<a>> \in Seq(S) /\ Len(<<a>>) = 1 /\ <<a>>[1] = a
  OBVIOUS
<1> HIDE DEF S
<1>2. Comparable(<<a>>, <<c, d>>) <=> <<a>>[1] = <<c, d>>[1]
  BY <1>1, ComparableShort
<1>3. Comparable(<<c, d>>, <<a>>) <=> <<c, d>>[1] = <<a>>[1]
  BY <1>1, ComparableShort
<1> QED BY <1>1, <1>2, <1>3

\* Two sections are comparable only if they are the same.
LEMMA ComparableSections ==
  ASSUME NEW a, NEW c
  PROVE  Comparable(<<a>>, <<c>>) <=> a = c
<1> DEFINE S == {a, c}
<1>1. /\ <<c>> \in Seq(S) /\ Len(<<c>>) = 1 /\ <<c>>[1] = c
      /\ <<a>> \in Seq(S) /\ Len(<<a>>) = 1 /\ <<a>>[1] = a
  OBVIOUS
<1> HIDE DEF S
<1>2. Comparable(<<a>>, <<c>>) <=> <<a>>[1] = <<c>>[1]
  BY <1>1, ComparableShort
<1> QED BY <1>1, <1>2

\* The names of the sections.
Sects == {"run", "data", "profile", "safety", "reports"}

\* The sections of a config by their names.
LEMMA SectionsAre ==
  /\ DOMAIN Sections = Sects
  /\ Sections["run"] = RunConfig /\ Sections["data"] = DataConfig
  /\ Sections["profile"] = LoadProfileConfig /\ Sections["safety"] = SafetyConfig
  /\ Sections["reports"] = ReportsConfig
BY DEF Sections, Sects

\* A field is a section and one of its keys.
LEMMA FieldsAre ==
  /\ \A p : p \in Fields <=> \E s \in Sects : \E f \in DOMAIN Sections[s] : p = <<s, f>>
  /\ DOMAIN Sections["run"] = {"base_url", "users", "spawn_rate", "max_duration_seconds"}
<1>1. \A p : p \in Fields <=> \E s \in Sects : \E f \in DOMAIN Sections[s] : p = <<s, f>>
  BY SectionsAre DEF Fields
<1>2. DOMAIN Sections["run"] = {"base_url", "users", "spawn_rate", "max_duration_seconds"}
  BY SectionsAre DEF RunConfig
<1> QED BY <1>1, <1>2

-----------------------------------------------------------------------------
(* Documents. *)

\* The values of a document.
Types == {"int", "bool", "str", "list", "null"}
Value == [type : Types, v : Int]

\* What a layer may set: fields, a whole section run, and what no config knows.
Paths == Fields \cup {<<"run">>, <<"cluster_token">>}

\* No path of a document extends another.
Apart(doc) == \A p, q \in DOMAIN doc : Comparable(p, q) => p = q

\* Documents of such values, no path of which leads through another.
Docs == {doc \in UNION {[D -> Value] : D \in SUBSET Paths} : Apart(doc)}

\* A document is a function from paths to values, none of which extends another.
LEMMA DocsAre ==
  ASSUME NEW doc
  PROVE  doc \in Docs <=> /\ doc = [p \in DOMAIN doc |-> doc[p]]
                          /\ DOMAIN doc \subseteq Paths
                          /\ \A p \in DOMAIN doc : doc[p] \in Value
                          /\ Apart(doc)
<1>1. doc \in Docs => /\ doc = [p \in DOMAIN doc |-> doc[p]]
                      /\ DOMAIN doc \subseteq Paths
                      /\ \A p \in DOMAIN doc : doc[p] \in Value
                      /\ Apart(doc)
  BY DEF Docs
<1>2. ASSUME doc = [p \in DOMAIN doc |-> doc[p]], DOMAIN doc \subseteq Paths,
             \A p \in DOMAIN doc : doc[p] \in Value, Apart(doc)
      PROVE  doc \in Docs
  <2>1. doc \in [DOMAIN doc -> Value] /\ DOMAIN doc \in SUBSET Paths
    BY <1>2
  <2> QED BY <1>2, <2>1 DEF Docs
<1> QED BY <1>1, <1>2

\* Of the paths of the layers, only the section run and its fields are comparable.
LEMMA PathsApart ==
  /\ \A p \in Paths : Comparable(p, p)
  /\ \A p, q \in Paths : Comparable(p, q) <=> Comparable(q, p)
  /\ \A p, q \in Paths : Comparable(p, q) /\ p # <<"run">> /\ q # <<"run">> => p = q
  /\ \A p \in Fields : Comparable(p, <<"run">>) <=> p[1] = "run"
  /\ \A p \in Fields : <<p[1], p[2]>> = p /\ p[1] \in Sects /\ p[2] \in DOMAIN Sections[p[1]]
  /\ ~Comparable(<<"cluster_token">>, <<"run">>)
  /\ <<"run">> \notin Fields /\ <<"cluster_token">> \notin Fields
<1>1. \A p \in Fields : \E s \in Sects : \E f \in DOMAIN Sections[s] : p = <<s, f>>
  BY FieldsAre
<1>2. \A p \in Fields : <<p[1], p[2]>> = p /\ p[1] \in Sects /\ p[2] \in DOMAIN Sections[p[1]]
  BY <1>1
<1>3. "cluster_token" \notin Sects /\ "run" \in Sects
  BY DEF Sects
<1>5. <<"run">> \notin Fields /\ <<"cluster_token">> \notin Fields
  <2>1. \A p \in Fields : Len(p) = 2
    BY <1>1
  <2>2. Len(<<"run">>) = 1 /\ Len(<<"cluster_token">>) = 1
    OBVIOUS
  <2> QED BY <2>1, <2>2
<1>6. ASSUME NEW p \in Fields, NEW q \in Fields PROVE Comparable(p, q) <=> p = q
  <2>1. Comparable(<<p[1], p[2]>>, <<q[1], q[2]>>) <=> <<p[1], p[2]>> = <<q[1], q[2]>>
    BY ComparableFields
  <2> QED BY <1>2, <2>1
<1>7. ASSUME NEW p \in Fields
      PROVE  /\ Comparable(p, <<"run">>) <=> p[1] = "run"
             /\ Comparable(<<"run">>, p) <=> p[1] = "run"
             /\ ~Comparable(p, <<"cluster_token">>) /\ ~Comparable(<<"cluster_token">>, p)
  <2>1. \A a : /\ Comparable(<<a>>, <<p[1], p[2]>>) <=> a = p[1]
               /\ Comparable(<<p[1], p[2]>>, <<a>>) <=> a = p[1]
    BY ComparableSection
  <2>2. p[1] # "cluster_token"
    BY <1>2, <1>3
  <2> QED BY <1>2, <2>1, <2>2
<1>8. /\ ~Comparable(<<"cluster_token">>, <<"run">>) /\ ~Comparable(<<"run">>, <<"cluster_token">>)
      /\ Comparable(<<"cluster_token">>, <<"cluster_token">>) /\ Comparable(<<"run">>, <<"run">>)
  <2>1. "run" # "cluster_token"
    OBVIOUS
  <2> QED BY <2>1, ComparableSections
<1>9. \A p \in Paths : p \in Fields \/ p = <<"run">> \/ p = <<"cluster_token">>
  BY DEF Paths
<1> QED BY <1>2, <1>5, <1>6, <1>7, <1>8, <1>9

\* A layer starts with nothing in it.
LEMMA EmptyDoc == Empty \in Docs
<1>1. DOMAIN Empty = {} /\ Empty = [p \in DOMAIN Empty |-> Empty[p]]
  BY DEF Empty
<1> QED BY <1>1, DocsAre DEF Apart

\* A value that is set is there, and nothing else changes but what was in its place.
LEMMA SetNestedDoc ==
  ASSUME NEW doc \in Docs, NEW path \in Paths, NEW value \in Value,
         NEW new, new = SetNested(doc, path, value)
  PROVE  /\ new \in Docs
         /\ \A q : q \in DOMAIN new <=> q = path \/ (q \in DOMAIN doc /\ ~Comparable(q, path))
         /\ new[path] = value
         /\ \A q \in DOMAIN doc : ~Comparable(q, path) => new[q] = doc[q]
<1> DEFINE D == {q \in DOMAIN doc : ~Comparable(q, path)} \cup {path}
<1>1. /\ new = [p \in D |-> IF p = path THEN value ELSE doc[p]]
  BY DEF SetNested
<1>2. /\ DOMAIN doc \subseteq Paths /\ Apart(doc)
      /\ \A p \in DOMAIN doc : doc[p] \in Value
  BY DocsAre
<1>3. DOMAIN new = D /\ D \subseteq Paths /\ new = [p \in DOMAIN new |-> new[p]]
  <2>1. D \subseteq Paths
    BY <1>2
  <2> HIDE DEF D
  <2> QED BY <1>1, <2>1
<1>4. new[path] = value /\ \A q \in DOMAIN doc : ~Comparable(q, path) => new[q] = doc[q]
  <2>1. path \in D /\ \A q \in DOMAIN doc : ~Comparable(q, path) => q \in D /\ q # path
    BY PathsApart
  <2> HIDE DEF D
  <2> QED BY <1>1, <2>1
<1>5. \A p \in D : new[p] \in Value
  BY <1>2, <1>4
<1>6. \A p, q \in D : Comparable(p, q) => p = q
  BY <1>2, PathsApart DEF Apart
<1>7. \A q : q \in D <=> q = path \/ (q \in DOMAIN doc /\ ~Comparable(q, path))
  OBVIOUS
<1> HIDE DEF D
<1>8. new \in Docs
  BY <1>3, <1>5, <1>6, DocsAre DEF Apart
<1> QED BY <1>3, <1>4, <1>7, <1>8

\* The right side of a merge is kept whole, of the left side what it leaves room for.
LEMMA DeepMergeDoc ==
  ASSUME NEW left \in Docs, NEW right \in Docs, NEW new, new = DeepMerge(left, right)
  PROVE  /\ new \in Docs
         /\ \A p : p \in DOMAIN new
              <=> p \in DOMAIN right
                  \/ (p \in DOMAIN left /\ \A r \in DOMAIN right : ~Comparable(p, r))
         /\ \A p \in DOMAIN new : new[p] = IF p \in DOMAIN right THEN right[p] ELSE left[p]
<1> DEFINE D == DOMAIN right \cup {q \in DOMAIN left : \A r \in DOMAIN right : ~Comparable(q, r)}
<1>1. new = [p \in D |-> IF p \in DOMAIN right THEN right[p] ELSE left[p]]
  BY DEF DeepMerge
<1>2. /\ DOMAIN left \subseteq Paths /\ Apart(left)
      /\ \A p \in DOMAIN left : left[p] \in Value
      /\ DOMAIN right \subseteq Paths /\ Apart(right)
      /\ \A p \in DOMAIN right : right[p] \in Value
  BY DocsAre
<1>3. D \subseteq Paths /\ \A p \in D : p \in DOMAIN right \/ p \in DOMAIN left
  BY <1>2
<1>4. \A p, q \in D : Comparable(p, q) => p = q
  <2>1. ASSUME NEW p \in D, NEW q \in D, Comparable(p, q) PROVE p = q
    <3>1. CASE p \in DOMAIN right /\ q \in DOMAIN right
      BY <1>2, <2>1, <3>1 DEF Apart
    <3>2. CASE p \notin DOMAIN right /\ q \notin DOMAIN right
      BY <1>2, <2>1, <3>2 DEF Apart
    <3>3. Comparable(q, p)
      BY <1>3, <2>1, PathsApart
    <3> QED BY <2>1, <3>1, <3>2, <3>3
  <2> QED BY <2>1
<1>5. \A p : p \in D <=> p \in DOMAIN right
                     \/ (p \in DOMAIN left /\ \A r \in DOMAIN right : ~Comparable(p, r))
  OBVIOUS
<1> HIDE DEF D
<1>6. /\ DOMAIN new = D /\ new = [p \in DOMAIN new |-> new[p]]
      /\ \A p \in DOMAIN new : new[p] = IF p \in DOMAIN right THEN right[p] ELSE left[p]
  BY <1>1
<1>7. \A p \in DOMAIN new : new[p] \in Value
  BY <1>2, <1>3, <1>6
<1>8. new \in Docs
  BY <1>3, <1>4, <1>6, <1>7, DocsAre DEF Apart
<1> QED BY <1>5, <1>6, <1>8

\* The users of the profile are set at most, to run.users, and only where they are not given.
LEMMA TargetUsersDoc ==
  ASSUME NEW doc \in Docs
  PROVE  /\ WithTargetUsers(doc) \in Docs
         /\ DOMAIN doc \subseteq DOMAIN WithTargetUsers(doc)
         /\ DOMAIN WithTargetUsers(doc) \subseteq DOMAIN doc \cup {TargetUsers}
         /\ \A p \in DOMAIN doc \ {TargetUsers} : WithTargetUsers(doc)[p] = doc[p]
         /\ Given(doc, TargetUsers) => WithTargetUsers(doc) = doc
         /\ /\ Given(doc, Users) /\ ~Given(doc, TargetUsers)
            /\ \E p \in DOMAIN doc : Len(p) > 1 /\ p[1] = "profile"
            => TargetUsers \in DOMAIN WithTargetUsers(doc)
               /\ WithTargetUsers(doc)[TargetUsers] = doc[Users]
<1>1. TargetUsers \in Fields /\ TargetUsers # <<"run">> /\ ~Comparable(TargetUsers, <<"run">>)
  <2>1. TargetUsers \in Fields
    BY SectionsAre, FieldsAre DEF TargetUsers, LoadProfileConfig, Sects
  <2>2. TargetUsers[1] # "run"
    BY DEF TargetUsers
  <2> QED BY <2>1, <2>2, PathsApart
<1>2. DOMAIN doc \subseteq Paths /\ \A p \in DOMAIN doc : doc[p] \in Value
  BY DocsAre
<1>3. \A q \in DOMAIN doc : Comparable(q, TargetUsers) => q = TargetUsers
  BY <1>1, <1>2, PathsApart DEF Paths
<1> DEFINE Defaults == /\ Given(doc, Users) /\ ~Given(doc, TargetUsers)
                       /\ \E p \in DOMAIN doc : Len(p) > 1 /\ p[1] = "profile"
           new == SetNested(doc, TargetUsers, doc[Users])
<1>4. CASE ~Defaults
  BY <1>4 DEF WithTargetUsers
<1>5. CASE Defaults
  <2>1. doc[Users] \in Value /\ TargetUsers \in Paths
    BY <1>1, <1>2, <1>5 DEF Given, Paths
  <2>2. /\ new \in Docs
        /\ \A q : q \in DOMAIN new
             <=> q = TargetUsers \/ (q \in DOMAIN doc /\ ~Comparable(q, TargetUsers))
        /\ new[TargetUsers] = doc[Users]
        /\ \A q \in DOMAIN doc : ~Comparable(q, TargetUsers) => new[q] = doc[q]
    BY <2>1, SetNestedDoc
  <2>3. WithTargetUsers(doc) = new /\ ~Given(doc, TargetUsers)
    BY <1>5 DEF WithTargetUsers
  <2> HIDE DEF new, Defaults
  <2> QED BY <1>3, <2>2, <2>3
<1> QED BY <1>4, <1>5

-----------------------------------------------------------------------------
(* A layer: the values set one after the other. *)

\* f is the recursion that sets the first n values at their paths.
Sets(f, n, path, value) ==
  f = [s \in SUBSET (1..n) |->
        IF s = {} THEN Empty ELSE SetNested(f[s \ {Max(s)}], path[Max(s)], value[Max(s)])]

\* There is such a recursion: SetNested keeps a document a document.
LEMMA SetsExists ==
  ASSUME NEW n \in Nat, NEW path \in [1..n -> Paths], NEW value \in [1..n -> Value]
  PROVE  \E f : Sets(f, n, path, value)
<1>1. PICK op : \A k \in 1..n : \A a \in Docs :
                  op[k][a] = SetNested(a, path[k], value[k]) /\ op[k][a] \in Docs
  <2> DEFINE op == [k \in 1..n |-> [a \in Docs |-> SetNested(a, path[k], value[k])]]
  <2>1. ASSUME NEW k \in 1..n, NEW a \in Docs
        PROVE  op[k][a] = SetNested(a, path[k], value[k]) /\ op[k][a] \in Docs
    <3>1. SetNested(a, path[k], value[k]) \in Docs
      <4>1. path[k] \in Paths /\ value[k] \in Value
        OBVIOUS
      <4> QED BY <4>1, SetNestedDoc
    <3> QED BY <3>1
  <2> HIDE DEF op
  <2> QED BY <2>1
<1>2. PICK f : PrefixFold(f, n, Docs, Empty, op)
  BY <1>1, EmptyDoc, PrefixFoldExists
<1>3. /\ f \in [SUBSET (1..n) -> Docs]
      /\ \A s \in SUBSET (1..n) : f[s] = IF s = {} THEN Empty ELSE op[Max(s)][f[s \ {Max(s)}]]
  BY <1>2 DEF PrefixFold
<1>4. \A s \in SUBSET (1..n) :
        f[s] = IF s = {} THEN Empty ELSE SetNested(f[s \ {Max(s)}], path[Max(s)], value[Max(s)])
  <2> SUFFICES ASSUME NEW s \in SUBSET (1..n), s # {}
               PROVE  f[s] = SetNested(f[s \ {Max(s)}], path[Max(s)], value[Max(s)])
    BY <1>3
  <2>1. Max(s) \in 1..n /\ f[s \ {Max(s)}] \in Docs
    BY <1>3, PrefixSteps
  <2> QED BY <1>1, <1>3, <2>1
<1> QED BY <1>3, <1>4 DEF Sets

\* No path is set twice and no section is set.
Free(n, path) ==
  /\ \A i, j \in 1..n : path[i] = path[j] => i = j
  /\ \A i \in 1..n : path[i] # <<"run">>

\* A layer is a document; and if no path is set twice and no section is set, every value
\* is in the end where it was put.
LEMMA LayerIs ==
  ASSUME NEW n \in Nat, NEW path \in [1..n -> Paths], NEW value \in [1..n -> Value],
         NEW f, Sets(f, n, path, value), NEW layer, layer = f[1..n]
  PROVE  /\ layer \in Docs
         /\ Free(n, path)
            => \A i \in 1..n : path[i] \in DOMAIN layer /\ layer[path[i]] = value[i]
<1>1. \A s \in SUBSET (1..n) :
        f[s] = IF s = {} THEN Empty ELSE SetNested(f[s \ {Max(s)}], path[Max(s)], value[Max(s)])
  <2> DEFINE G(s) == IF s = {} THEN Empty ELSE SetNested(f[s \ {Max(s)}], path[Max(s)], value[Max(s)])
  <2>1. f = [s \in SUBSET (1..n) |-> G(s)]
    BY DEF Sets
  <2> HIDE DEF G
  <2>2. \A s \in SUBSET (1..n) : f[s] = G(s)
    BY <2>1
  <2> QED BY <2>2 DEF G
<1> DEFINE L == [k \in 0..n |-> f[1..k]]
<1>2. L[0] = Empty
  <2>1. L[0] = f[{}]
    BY PrefixSteps
  <2> QED BY <1>1, <2>1
<1>3. \A k \in 1..n : L[k] = SetNested(L[k - 1], path[k], value[k])
  <2> SUFFICES ASSUME NEW k \in 1..n PROVE f[1..k] = SetNested(f[1..k - 1], path[k], value[k])
    OBVIOUS
  <2>1. 1..k \in SUBSET (1..n) /\ 1..k # {} /\ Max(1..k) = k /\ (1..k) \ {k} = 1..k - 1
    BY PrefixSteps
  <2> QED BY <1>1, <2>1
<1>4. L[n] = layer
  OBVIOUS
<1> HIDE DEF L
<1> DEFINE Good(k) ==
             /\ L[k] \in Docs
             /\ Free(n, path) => \A i \in 1..k : path[i] \in DOMAIN L[k] /\ L[k][path[i]] = value[i]
           Q == {k \in 0..n : Good(k)}
<1>5. 0 \in Q
  <2>1. DOMAIN Empty = {}
    BY DEF Empty
  <2> QED BY <1>2, <2>1, EmptyDoc
<1>6. ASSUME NEW k \in 0..n - 1, k \in Q PROVE k + 1 \in Q
  <2>1. Good(k) /\ k + 1 \in 1..n /\ (k + 1) - 1 = k /\ k + 1 \in 0..n
    BY <1>6
  <2>2. L[k + 1] = SetNested(L[k], path[k + 1], value[k + 1])
    BY <1>3, <2>1
  <2>3. /\ L[k + 1] \in Docs
        /\ \A q : q \in DOMAIN L[k + 1]
                  <=> q = path[k + 1] \/ (q \in DOMAIN L[k] /\ ~Comparable(q, path[k + 1]))
        /\ L[k + 1][path[k + 1]] = value[k + 1]
        /\ \A q \in DOMAIN L[k] : ~Comparable(q, path[k + 1]) => L[k + 1][q] = L[k][q]
    <3>1. path[k + 1] \in Paths /\ value[k + 1] \in Value /\ L[k] \in Docs
      BY <2>1
    <3>2. PICK doc, at, v, new : /\ doc = L[k] /\ at = path[k + 1] /\ v = value[k + 1]
                                  /\ new = L[k + 1]
      OBVIOUS
    <3>3. doc \in Docs /\ at \in Paths /\ v \in Value /\ new = SetNested(doc, at, v)
      BY <2>2, <3>1, <3>2
    <3>4. /\ new \in Docs
          /\ \A q : q \in DOMAIN new <=> q = at \/ (q \in DOMAIN doc /\ ~Comparable(q, at))
          /\ new[at] = v
          /\ \A q \in DOMAIN doc : ~Comparable(q, at) => new[q] = doc[q]
      BY <3>3, SetNestedDoc
    <3> HIDE DEF Good
    <3> QED BY <3>2, <3>4
  <2>4. 1..k + 1 = 1..k \cup {k + 1}
    BY <2>1
  <2>5. ASSUME Free(n, path), NEW i \in 1..k
        PROVE  path[i] \in DOMAIN L[k + 1] /\ L[k + 1][path[i]] = value[i]
    <3>1. i \in 1..n /\ i # k + 1
      BY <2>1
    <3>2. path[i] \in Paths /\ path[k + 1] \in Paths /\ path[i] # path[k + 1]
          /\ path[i] # <<"run">> /\ path[k + 1] # <<"run">>
      BY <2>1, <2>5, <3>1 DEF Free
    <3>3. ~Comparable(path[i], path[k + 1])
      BY <3>2, PathsApart
    <3> QED BY <2>1, <2>3, <2>5, <3>3
  <2>6. Free(n, path) => \A i \in 1..k + 1 : path[i] \in DOMAIN L[k + 1] /\ L[k + 1][path[i]] = value[i]
    BY <2>3, <2>4, <2>5
  <2> QED BY <2>1, <2>3, <2>6
<1>7. n \in Q
  <2> HIDE DEF Q
  <2>1. \A k \in 0..n : k \in Q
    BY <1>5, <1>6, IntervalInduction
  <2> QED BY <2>1
<1>8. Good(n)
  BY <1>7
<1> QED BY <1>4, <1>8

\* So it is for the variables of the environment, whatever their order.
LEMMA EnvLayer ==
  ASSUME NEW n \in Nat, NEW env, DOMAIN env = 1..n,
         \A i \in 1..n : env[i].path \in Paths /\ ParseScalar(env[i].text) \in Value
  PROVE  /\ EnvOverrides(env) \in Docs
         /\ /\ \A i, j \in 1..n : env[i].path = env[j].path => i = j
            /\ \A i \in 1..n : env[i].path # <<"run">>
            => \A i \in 1..n : /\ env[i].path \in DOMAIN EnvOverrides(env)
                               /\ EnvOverrides(env)[env[i].path] = ParseScalar(env[i].text)
<1> DEFINE Raw(f) == f = [s \in SUBSET (1..n) |->
                        IF s = {} THEN Empty
                        ELSE SetNested(f[s \ {Max(s)}], env[Max(s)].path,
                                       ParseScalar(env[Max(s)].text))]
<1>1. PICK path \in [1..n -> Paths], value \in [1..n -> Value] :
        \A i \in 1..n : path[i] = env[i].path /\ value[i] = ParseScalar(env[i].text)
  <2>1. [i \in 1..n |-> env[i].path] \in [1..n -> Paths]
    OBVIOUS
  <2>2. [i \in 1..n |-> ParseScalar(env[i].text)] \in [1..n -> Value]
    OBVIOUS
  <2> QED BY <2>1, <2>2
<1>2. ASSUME NEW f PROVE Raw(f) <=> Sets(f, n, path, value)
  <2> DEFINE G(s) == IF s = {} THEN Empty
                     ELSE SetNested(f[s \ {Max(s)}], env[Max(s)].path, ParseScalar(env[Max(s)].text))
             H(s) == IF s = {} THEN Empty
                     ELSE SetNested(f[s \ {Max(s)}], path[Max(s)], value[Max(s)])
  <2>1. \A s \in SUBSET (1..n) : G(s) = H(s)
    BY <1>1, PrefixSteps
  <2>2. Raw(f) <=> f = [s \in SUBSET (1..n) |-> G(s)]
    OBVIOUS
  <2>3. Sets(f, n, path, value) <=> f = [s \in SUBSET (1..n) |-> H(s)]
    BY DEF Sets
  <2> HIDE DEF G, H, Raw
  <2>4. f = [s \in SUBSET (1..n) |-> G(s)] <=> f = [s \in SUBSET (1..n) |-> H(s)]
    BY <2>1
  <2> QED BY <2>2, <2>3, <2>4
<1>3. PICK f : Sets(f, n, path, value) /\ EnvOverrides(env) = f[1..n]
  <2>1. EnvOverrides(env) = (CHOOSE f : Raw(f))[1..n]
    BY DEF EnvOverrides, FoldLeft, MapThenFoldSet
  <2> HIDE DEF Raw
  <2>2. Raw(CHOOSE f : Raw(f))
    BY <1>2, SetsExists
  <2> QED BY <1>2, <2>1, <2>2
<1> HIDE DEF Raw
<1>4. PICK layer : layer = f[1..n]
  OBVIOUS
<1>5. /\ layer \in Docs
      /\ Free(n, path)
         => \A i \in 1..n : path[i] \in DOMAIN layer /\ layer[path[i]] = value[i]
  BY <1>1, <1>3, <1>4, LayerIs
<1>6. /\ \A i, j \in 1..n : env[i].path = env[j].path => i = j
      /\ \A i \in 1..n : env[i].path # <<"run">>
      => Free(n, path)
  BY <1>1 DEF Free
<1> QED BY <1>1, <1>3, <1>4, <1>5, <1>6

\* The overrides of the command line are a document as well.
LEMMA CliLayer ==
  ASSUME NEW n \in Nat, NEW cli, DOMAIN cli = 1..n,
         \A i \in 1..n : cli[i].path \in Paths /\ cli[i].value \in Value
  PROVE  DottedOverrides(cli) \in Docs
<1> DEFINE Raw(f) == f = [s \in SUBSET (1..n) |->
                        IF s = {} THEN Empty
                        ELSE SetNested(f[s \ {Max(s)}], cli[Max(s)].path, cli[Max(s)].value)]
<1>1. PICK path \in [1..n -> Paths], value \in [1..n -> Value] :
        \A i \in 1..n : path[i] = cli[i].path /\ value[i] = cli[i].value
  <2>1. [i \in 1..n |-> cli[i].path] \in [1..n -> Paths]
    OBVIOUS
  <2>2. [i \in 1..n |-> cli[i].value] \in [1..n -> Value]
    OBVIOUS
  <2> QED BY <2>1, <2>2
<1>2. ASSUME NEW f PROVE Raw(f) <=> Sets(f, n, path, value)
  <2> DEFINE G(s) == IF s = {} THEN Empty
                     ELSE SetNested(f[s \ {Max(s)}], cli[Max(s)].path, cli[Max(s)].value)
             H(s) == IF s = {} THEN Empty
                     ELSE SetNested(f[s \ {Max(s)}], path[Max(s)], value[Max(s)])
  <2>1. \A s \in SUBSET (1..n) : G(s) = H(s)
    BY <1>1, PrefixSteps
  <2>2. Raw(f) <=> f = [s \in SUBSET (1..n) |-> G(s)]
    OBVIOUS
  <2>3. Sets(f, n, path, value) <=> f = [s \in SUBSET (1..n) |-> H(s)]
    BY DEF Sets
  <2> HIDE DEF G, H, Raw
  <2>4. f = [s \in SUBSET (1..n) |-> G(s)] <=> f = [s \in SUBSET (1..n) |-> H(s)]
    BY <2>1
  <2> QED BY <2>2, <2>3, <2>4
<1>3. PICK f : Sets(f, n, path, value) /\ DottedOverrides(cli) = f[1..n]
  <2>1. DottedOverrides(cli) = (CHOOSE f : Raw(f))[1..n]
    BY DEF DottedOverrides, FoldLeft, MapThenFoldSet
  <2> HIDE DEF Raw
  <2>2. Raw(CHOOSE f : Raw(f))
    BY <1>2, SetsExists
  <2> QED BY <1>2, <2>1, <2>2
<1> HIDE DEF Raw
<1> QED BY <1>3, LayerIs

-----------------------------------------------------------------------------
(* Valid configs. *)

\* What is required is there, and run.users is a number.
LEMMA ValidIs ==
  ASSUME NEW doc, Valid(doc)
  PROVE  /\ DOMAIN doc \subseteq Fields
         /\ \A f \in DOMAIN Sections["run"] : <<"run", f>> \in DOMAIN doc
         /\ <<"profile", "type">> \in DOMAIN doc
         /\ Given(doc, Users) /\ Given(doc, TargetUsers)
         /\ Given(doc, <<"run", "base_url">>)
         /\ <<"safety", "allowed_hosts">> \in DOMAIN doc
         /\ Given(doc, <<"run", "max_duration_seconds">>)
         /\ doc[<<"run", "max_duration_seconds">>].v >= 1
<1>1. FieldsValid(doc) /\ ContractValid(doc)
  BY DEF Valid
<1>2. DOMAIN doc \subseteq Fields /\ \A p \in DOMAIN doc : Accepts(p, doc[p])
  BY <1>1 DEF FieldsValid
<1>3. \A s \in Required : \A f \in DOMAIN Sections[s] :
        Sections[s][f].required => <<s, f>> \in DOMAIN doc
  BY <1>1 DEF FieldsValid
<1>4. "run" \in Required /\ "profile" \in Required /\ "safety" \in Required
  BY DEF Required
<1>5. /\ DOMAIN RunConfig = {"base_url", "users", "spawn_rate", "max_duration_seconds"}
      /\ \A f \in {"users", "spawn_rate", "max_duration_seconds"} :
           RunConfig[f] = [type |-> "number", least |-> 1, required |-> TRUE]
      /\ "type" \in DOMAIN LoadProfileConfig /\ LoadProfileConfig["type"].required
      /\ "allowed_hosts" \in DOMAIN SafetyConfig /\ SafetyConfig["allowed_hosts"].required
  BY DEF RunConfig, LoadProfileConfig, SafetyConfig, Field
<1>6. Given(doc, <<"run", "base_url">>) /\ Given(doc, TargetUsers)
  BY <1>1 DEF ContractValid
<1>7. ASSUME NEW f \in {"users", "spawn_rate", "max_duration_seconds"}
      PROVE  /\ <<"run", f>> \in DOMAIN doc
             /\ doc[<<"run", f>>] # Null /\ doc[<<"run", f>>].v >= 1
  <2>1. Sections["run"][f] = [type |-> "number", least |-> 1, required |-> TRUE]
    BY <1>5, SectionsAre
  <2>2. f \in DOMAIN Sections["run"] /\ Sections["run"][f].required
    BY <1>5, <2>1, SectionsAre
  <2>3. <<"run", f>> \in DOMAIN doc
    BY <1>3, <1>4, <2>2
  <2>4. FieldAt(<<"run", f>>) = [type |-> "number", least |-> 1, required |-> TRUE]
    BY <2>1 DEF FieldAt
  <2>5. Accepts(<<"run", f>>, doc[<<"run", f>>])
    BY <1>2, <2>3
  <2>6. PICK value : value = doc[<<"run", f>>]
    OBVIOUS
  <2>7. value.type \in {"int", "bool"} /\ value.v >= 1
    BY <2>4, <2>5, <2>6 DEF Accepts
  <2>8. value # Null
    BY <2>7 DEF Null
  <2> QED BY <2>3, <2>6, <2>7, <2>8
<1>8. <<"profile", "type">> \in DOMAIN doc /\ <<"safety", "allowed_hosts">> \in DOMAIN doc
  BY <1>3, <1>4, <1>5, SectionsAre
<1>9. \A f \in DOMAIN Sections["run"] : <<"run", f>> \in DOMAIN doc
  BY <1>5, <1>6, <1>7, SectionsAre DEF Given
<1> QED BY <1>2, <1>6, <1>7, <1>8, <1>9 DEF Given, Users

\* Whatever the layers are, a config that loads keeps within its safety limits.
LEMMA LoadedIsSafe ==
  ASSUME NEW doc \in Docs, Valid(doc)
  PROVE  LET At(section, field) == LayerAt(doc, <<section, field>>)
         IN /\ At("run", "base_url").v = At("safety", "allowed_hosts").v
            /\ At("safety", "max_users") # Null => At("run", "users").v <= At("safety", "max_users").v
            /\ At("profile", "target_users").v = At("run", "users").v
            /\ At("profile", "hold_seconds").v <= At("run", "max_duration_seconds").v
<1>1. /\ doc[<<"run", "base_url">>].v = doc[<<"safety", "allowed_hosts">>].v
      /\ AtMost(doc, Users, <<"safety", "max_users">>)
      /\ doc[TargetUsers].v = doc[Users].v
      /\ AtMost(doc, <<"profile", "hold_seconds">>, <<"run", "max_duration_seconds">>)
  BY DEF Valid, ContractValid
<1>2. LayerAt(doc, <<"run", "base_url">>).v = LayerAt(doc, <<"safety", "allowed_hosts">>).v
  BY <1>1, ValidIs DEF LayerAt, Given
<1>3. LayerAt(doc, <<"safety", "max_users">>) # Null
        => LayerAt(doc, <<"run", "users">>).v <= LayerAt(doc, <<"safety", "max_users">>).v
  BY <1>1, ValidIs DEF LayerAt, Given, AtMost, Users
<1>4. LayerAt(doc, <<"profile", "target_users">>).v = LayerAt(doc, <<"run", "users">>).v
  BY <1>1, ValidIs DEF LayerAt, Given, Users, TargetUsers
<1>5. LayerAt(doc, <<"profile", "hold_seconds">>).v <= LayerAt(doc, <<"run", "max_duration_seconds">>).v
  <2>1. LayerAt(doc, <<"run", "max_duration_seconds">>) = doc[<<"run", "max_duration_seconds">>]
    BY ValidIs DEF LayerAt, Given
  <2>2. CASE Given(doc, <<"profile", "hold_seconds">>)
    BY <1>1, <2>1, <2>2, ValidIs DEF LayerAt, Given, AtMost
  <2>3. CASE ~Given(doc, <<"profile", "hold_seconds">>)
    <3>1. LayerAt(doc, <<"profile", "hold_seconds">>).v = 0
      BY <2>3 DEF LayerAt, Given, Null
    <3>2. doc[<<"run", "max_duration_seconds">>] \in Value
      BY ValidIs, DocsAre DEF Given
    <3>3. PICK n \in Int : n = doc[<<"run", "max_duration_seconds">>].v
      BY <3>2 DEF Value
    <3>4. n >= 1
      BY <3>3, ValidIs
    <3> QED BY <2>1, <3>1, <3>3, <3>4
  <2> QED BY <2>2, <2>3
<1> QED BY <1>2, <1>3, <1>4, <1>5

\* What a layer sets outlives the layers before it: the last of the three that gives a
\* field decides it.
LEMMA LoadedInOrder ==
  ASSUME NEW yaml \in Docs, NEW env \in Docs, NEW cli \in Docs, NEW both, NEW merged, NEW doc,
         both = DeepMerge(yaml, env), merged = DeepMerge(both, cli),
         doc = WithTargetUsers(merged), Valid(doc)
  PROVE  LET Chosen(p) == IF p \in DOMAIN cli THEN cli[p] ELSE IF p \in DOMAIN env THEN env[p]
                          ELSE LayerAt(yaml, p)
         IN /\ doc \in Docs
            /\ \A p \in Fields \ {TargetUsers} : LayerAt(doc, p) = Chosen(p)
            /\ LayerAt(doc, TargetUsers)
                 = IF Chosen(TargetUsers) = Null THEN doc[Users] ELSE Chosen(TargetUsers)
            /\ \A p \in DOMAIN env : p = <<"run">> \/ p \in Fields \/ p \in DOMAIN cli
<1> DEFINE Chosen(p) == IF p \in DOMAIN cli THEN cli[p] ELSE IF p \in DOMAIN env THEN env[p]
                        ELSE LayerAt(yaml, p)
<1>1. /\ both \in Docs
      /\ \A p : p \in DOMAIN both
           <=> p \in DOMAIN env \/ (p \in DOMAIN yaml /\ \A r \in DOMAIN env : ~Comparable(p, r))
      /\ \A p \in DOMAIN both : both[p] = IF p \in DOMAIN env THEN env[p] ELSE yaml[p]
  BY DeepMergeDoc
<1>2. /\ merged \in Docs
      /\ \A p : p \in DOMAIN merged
           <=> p \in DOMAIN cli \/ (p \in DOMAIN both /\ \A r \in DOMAIN cli : ~Comparable(p, r))
      /\ \A p \in DOMAIN merged : merged[p] = IF p \in DOMAIN cli THEN cli[p] ELSE both[p]
  BY <1>1, DeepMergeDoc
<1>3. /\ doc \in Docs /\ DOMAIN merged \subseteq DOMAIN doc
      /\ DOMAIN doc \subseteq DOMAIN merged \cup {TargetUsers}
      /\ \A p \in DOMAIN merged \ {TargetUsers} : doc[p] = merged[p]
      /\ Given(merged, TargetUsers) => doc = merged
      /\ /\ Given(merged, Users) /\ ~Given(merged, TargetUsers)
         /\ \E p \in DOMAIN merged : Len(p) > 1 /\ p[1] = "profile"
         => TargetUsers \in DOMAIN doc /\ doc[TargetUsers] = merged[Users]
  BY <1>2, TargetUsersDoc
<1>4. /\ DOMAIN doc \subseteq Fields /\ DOMAIN merged \subseteq Fields
      /\ <<"run">> \notin Fields /\ <<"run">> \notin DOMAIN cli
  BY <1>2, <1>3, ValidIs, PathsApart
<1>5. /\ DOMAIN yaml \subseteq Paths /\ DOMAIN env \subseteq Paths /\ DOMAIN cli \subseteq Paths
      /\ DOMAIN both \subseteq Paths /\ Apart(env)
  BY <1>1, DocsAre
<1>6. \A p \in Paths : p \in DOMAIN both /\ p \notin DOMAIN cli /\ p # <<"run">> => p \in DOMAIN merged
  <2>1. \A p \in Paths, r \in DOMAIN cli : p # <<"run">> /\ Comparable(p, r) => p = r
    BY <1>4, <1>5, PathsApart
  <2> QED BY <1>2, <2>1
<1>7. ASSUME NEW p \in Fields
      PROVE  LayerAt(merged, p) = Chosen(p)
  <2>1. p \in Paths /\ p # <<"run">>
    BY <1>4 DEF Paths
  <2>2. CASE p \in DOMAIN cli
    BY <1>2, <2>2 DEF LayerAt
  <2>3. CASE p \notin DOMAIN cli /\ p \in DOMAIN env
    <3>1. p \in DOMAIN both /\ both[p] = env[p]
      BY <1>1, <2>3
    <3>2. p \in DOMAIN merged /\ merged[p] = both[p]
      BY <1>2, <1>6, <2>1, <2>3, <3>1
    <3> QED BY <2>3, <3>1, <3>2 DEF LayerAt
  <2>4. CASE p \notin DOMAIN cli /\ p \notin DOMAIN env /\ p \notin DOMAIN yaml
    <3>1. p \notin DOMAIN both
      BY <1>1, <2>4
    <3> QED BY <1>2, <2>4, <3>1 DEF LayerAt
  <2>5. CASE p \notin DOMAIN cli /\ p \notin DOMAIN env /\ p \in DOMAIN yaml
    <3>1. CASE \A r \in DOMAIN env : ~Comparable(p, r)
      <4>1. p \in DOMAIN both /\ both[p] = yaml[p]
        BY <1>1, <2>5, <3>1
      <4>2. p \in DOMAIN merged /\ merged[p] = both[p]
        BY <1>2, <1>6, <2>1, <2>5, <4>1
      <4> QED BY <2>5, <4>1, <4>2 DEF LayerAt
    <3>2. CASE \E r \in DOMAIN env : Comparable(p, r)
      <4>1. <<"run">> \in DOMAIN env /\ Comparable(p, <<"run">>)
        BY <1>5, <2>1, <2>5, <3>2, PathsApart
      <4>2. p[1] = "run" /\ p = <<p[1], p[2]>> /\ p[2] \in DOMAIN Sections[p[1]]
        BY <4>1, PathsApart
      <4>3. p \in DOMAIN doc
        BY <4>2, ValidIs
      <4>4. p # TargetUsers
        BY <4>2 DEF TargetUsers
      <4>5. p \in DOMAIN merged
        BY <1>3, <4>3, <4>4
      <4>6. p \notin DOMAIN both
        BY <1>1, <2>5, <4>1
      <4> QED BY <1>2, <2>5, <4>5, <4>6
    <3> QED BY <3>1, <3>2
  <2> QED BY <2>2, <2>3, <2>4, <2>5
<1>8. \A p \in Fields \ {TargetUsers} : LayerAt(doc, p) = LayerAt(merged, p)
  BY <1>3 DEF LayerAt
<1>9. TargetUsers \in Fields /\ Users \in Fields /\ Users # TargetUsers
  BY <1>4, ValidIs DEF Given, Users, TargetUsers
<1>10. Users \in DOMAIN merged /\ merged[Users] = doc[Users] /\ Given(merged, Users)
  BY <1>3, <1>9, ValidIs DEF Given
<1>11. LayerAt(doc, TargetUsers)
         = IF LayerAt(merged, TargetUsers) = Null THEN doc[Users] ELSE LayerAt(merged, TargetUsers)
  <2>1. CASE Given(merged, TargetUsers)
    BY <1>3, <2>1 DEF LayerAt, Given
  <2>2. CASE ~Given(merged, TargetUsers)
    <3>1. <<"profile", "type">> # TargetUsers
      <4>1. <<"profile", "type">>[2] # TargetUsers[2]
        BY DEF TargetUsers
      <4> QED BY <4>1
    <3>2. <<"profile", "type">> \in DOMAIN merged
      BY <1>3, <3>1, ValidIs
    <3>3. Len(<<"profile", "type">>) > 1 /\ <<"profile", "type">>[1] = "profile"
      OBVIOUS
    <3>4. TargetUsers \in DOMAIN doc /\ doc[TargetUsers] = doc[Users]
      BY <1>3, <1>10, <2>2, <3>2, <3>3
    <3>5. LayerAt(merged, TargetUsers) = Null
      BY <2>2 DEF LayerAt, Given
    <3> QED BY <3>4, <3>5 DEF LayerAt
  <2> QED BY <2>1, <2>2
<1>12. \A p \in DOMAIN env : p = <<"run">> \/ p \in Fields \/ p \in DOMAIN cli
  BY <1>1, <1>4, <1>5, <1>6
<1>13. /\ \A p \in Fields \ {TargetUsers} : LayerAt(doc, p) = Chosen(p)
       /\ LayerAt(doc, TargetUsers)
            = IF Chosen(TargetUsers) = Null THEN doc[Users] ELSE Chosen(TargetUsers)
  <2> HIDE DEF Chosen
  <2> QED BY <1>7, <1>8, <1>9, <1>11
<1> QED BY <1>3, <1>12, <1>13

-----------------------------------------------------------------------------
(* The layers that the rule is given. *)

\* What a layer sets is a value, and none but null is null.
LEMMA ValuesAre ==
  \A n \in Int : /\ Number(n) \in Value /\ Text(n) \in Value /\ Hosts(n) \in Value
                 /\ Bool(n) \in Value /\ Null \in Value
                 /\ Number(n) # Null /\ Text(n) # Null /\ Hosts(n) # Null /\ Bool(n) # Null
BY DEF Value, Types, Number, Text, Hosts, Bool, Null

\* A file is a document: its paths are fields, and no field extends another.
LEMMA FileDoc ==
  ASSUME NEW t \in Value \cup {Absent}, NEW m \in Value \cup {Absent}, NEW h \in Value \cup {Absent}
  PROVE  File(t, m, h) \in Docs
<1> DEFINE At(p) ==
      CASE p \in {<<"run", "base_url">>, <<"profile", "type">>} -> Text(1)
        [] p \in {<<"run", "spawn_rate">>, <<"data", "seed">>} -> Number(1)
        [] p \in {Users, <<"profile", "duration_seconds">>} -> Number(2)
        [] p = <<"run", "max_duration_seconds">> -> Number(3)
        [] p = <<"data", "pool_size">> -> Number(4)
        [] p = <<"safety", "allowed_hosts">> -> Hosts(1)
        [] p = TargetUsers -> t
        [] p = <<"safety", "max_users">> -> m
        [] p = <<"profile", "hold_seconds">> -> h
        [] OTHER -> Absent
<1>1. \A p \in Fields : At(p) \in Value \cup {Absent}
  BY ValuesAre
<1> DEFINE content == [p \in Fields |-> At(p)]
           D == {p \in Fields : content[p] # Absent}
<1>2. File(t, m, h) = [p \in D |-> content[p]]
  BY DEF File, Restrict
<1> HIDE DEF At
<1>3. \A p \in D : content[p] \in Value
  BY <1>1
<1>4. D \subseteq Fields /\ D \subseteq Paths /\ <<"run">> \notin Fields
  BY PathsApart DEF Paths
<1> HIDE DEF content, D
<1>5. PICK file : file = File(t, m, h)
  OBVIOUS
<1>6. /\ DOMAIN file = D /\ file = [p \in DOMAIN file |-> file[p]]
      /\ \A p \in DOMAIN file : file[p] \in Value
  BY <1>2, <1>3, <1>5
<1>7. Apart(file)
  BY <1>4, <1>6, PathsApart DEF Apart
<1> QED BY <1>4, <1>5, <1>6, <1>7, DocsAre

\* All the files are.
LEMMA FilesAreDocs == Files \subseteq Docs
<1>1. \A n \in Int : Number(n) \in Value /\ Null \in Value
  BY ValuesAre
<1> SUFFICES ASSUME NEW file \in Files PROVE file \in Docs
  OBVIOUS
<1>2. PICK t \in {Absent, Null, Number(2), Number(3)}, m \in {Absent, Number(2), Number(3)},
           h \in {Absent, Number(4)} : file = File(t, m, h)
  BY DEF Files
<1>3. /\ t \in Value \cup {Absent} /\ m \in Value \cup {Absent}
      /\ h \in Value \cup {Absent}
  BY <1>1
<1> QED BY <1>2, <1>3, FileDoc

\* A variable names a path, and no text of a variable is read as null.
LEMMA VariablesAre ==
  \A var \in Variables : /\ var.path \in Paths /\ ParseScalar(var.text) \in Value
                         /\ ParseScalar(var.text) # Null
<1>1. /\ Users \in Fields /\ TargetUsers \in Fields /\ <<"profile", "tick_seconds">> \in Fields
      /\ <<"safety", "max_users">> \in Fields /\ <<"safety", "allowed_hosts">> \in Fields
      /\ <<"run", "base_url">> \in Fields /\ <<"reports", "json">> \in Fields
  <2>1. /\ "tick_seconds" \in DOMAIN LoadProfileConfig /\ "target_users" \in DOMAIN LoadProfileConfig
        /\ "max_users" \in DOMAIN SafetyConfig /\ "allowed_hosts" \in DOMAIN SafetyConfig
        /\ "base_url" \in DOMAIN RunConfig /\ "users" \in DOMAIN RunConfig
        /\ "json" \in DOMAIN ReportsConfig
    BY DEF LoadProfileConfig, SafetyConfig, RunConfig, ReportsConfig
  <2>2. {"run", "profile", "safety", "reports"} \subseteq Sects
    BY DEF Sects
  <2> QED BY <2>1, <2>2, SectionsAre, FieldsAre DEF Users, TargetUsers
<1>2. ASSUME NEW var \in Variables PROVE var.path \in Paths
  BY <1>1 DEF Variables, TokenVariable, Paths
<1>3. ASSUME NEW var \in Variables
      PROVE  \/ var.text = Word(3) \/ var.text = Word(2)
             \/ var.text \in {Digits(1), Digits(2), Digits(3)}
             \/ var.text = [shape |-> "truth", v |-> 0]
  BY DEF Variables, TokenVariable
<1>4. /\ \A n : /\ ParseScalar(Word(n)) = Text(n)
                /\ ParseScalar(Digits(n)) = Number(n)
                /\ ParseScalar([shape |-> "truth", v |-> n]) = Bool(n)
  BY DEF ParseScalar, Word, Digits
<1>5. ASSUME NEW var \in Variables
      PROVE  ParseScalar(var.text) \in Value /\ ParseScalar(var.text) # Null
  <2>1. \E n \in Int : ParseScalar(var.text) \in {Text(n), Number(n), Bool(n)}
    BY <1>3, <1>4
  <2> QED BY <2>1, ValuesAre
<1> QED BY <1>2, <1>5

\* What the command line sets is a document.
LEMMA OverridesAre ==
  ASSUME NEW cli \in Overrides
  PROVE  DottedOverrides(cli) \in Docs
<1>1. Users \in Paths /\ <<"safety", "max_users">> \in Paths
  <2>1. "max_users" \in DOMAIN SafetyConfig /\ "users" \in DOMAIN RunConfig
    BY DEF SafetyConfig, RunConfig
  <2>2. "run" \in Sects /\ "safety" \in Sects
    BY DEF Sects
  <2> QED BY <2>1, <2>2, SectionsAre, FieldsAre DEF Users, Paths
<1>2. \/ cli = <<>>
      \/ \E p \in Paths, n \in Int : cli = <<[path |-> p, value |-> Number(n)]>>
  BY <1>1 DEF Overrides
<1>3. PICK n \in Nat : /\ DOMAIN cli = 1..n
                       /\ \A i \in 1..n : cli[i].path \in Paths /\ cli[i].value \in Value
  <2>1. CASE cli = <<>>
    <3>1. DOMAIN cli = 1..0
      BY <2>1
    <3> QED BY <3>1
  <2>2. CASE \E p \in Paths, n \in Int : cli = <<[path |-> p, value |-> Number(n)]>>
    <3>1. PICK p \in Paths, n \in Int : cli = <<[path |-> p, value |-> Number(n)]>>
      BY <2>2
    <3>2. DOMAIN cli = 1..1 /\ cli[1].path = p /\ cli[1].value = Number(n)
      BY <3>1
    <3>3. \A i \in 1..1 : i = 1
      OBVIOUS
    <3> QED BY <3>1, <3>2, <3>3, ValuesAre
  <2> QED BY <1>2, <2>1, <2>2
<1> QED BY <1>3, CliLayer

\* What the environment sets is one, with everything in it unless a section is set.
LEMMA EnvironmentsAre ==
  ASSUME NEW env \in Environments
  PROVE  /\ EnvOverrides(env) \in Docs
         /\ <<"run">> \notin {env[i].path : i \in DOMAIN env}
            => \A i \in DOMAIN env : /\ env[i].path \in DOMAIN EnvOverrides(env)
                                     /\ EnvOverrides(env)[env[i].path] = ParseScalar(env[i].text)
<1>1. PICK n \in Nat : env \in [1..n -> Variables]
  BY RulesAssumption DEF Environments, BoundedSeq, SeqOf
<1>2. \A i, j \in DOMAIN env : env[i].path = env[j].path => i = j
  BY DEF Environments
<1>3. DOMAIN env = 1..n /\ \A i \in 1..n : env[i] \in Variables
  BY <1>1
<1>4. \A i \in 1..n : env[i].path \in Paths /\ ParseScalar(env[i].text) \in Value
  BY <1>3, VariablesAre
<1>5. /\ EnvOverrides(env) \in Docs
      /\ /\ \A i, j \in 1..n : env[i].path = env[j].path => i = j
         /\ \A i \in 1..n : env[i].path # <<"run">>
         => \A i \in 1..n : /\ env[i].path \in DOMAIN EnvOverrides(env)
                            /\ EnvOverrides(env)[env[i].path] = ParseScalar(env[i].text)
  BY <1>3, <1>4, EnvLayer
<1>6. ASSUME <<"run">> \notin {env[i].path : i \in DOMAIN env}
      PROVE  \A i \in 1..n : env[i].path # <<"run">>
  BY <1>3, <1>6
<1> QED BY <1>2, <1>3, <1>5, <1>6

-----------------------------------------------------------------------------
(* Loading: what the result of the rule is. *)

\* The inductive invariant: what is loaded comes from a file, an environment and a command
\* line, and the result is what load_config returns for them.
Loaded ==
  rule = "load" => /\ given.yaml \in Files /\ given.env \in Environments
                   /\ given.cli \in Overrides
                   /\ result = LoadConfig(given.yaml, given.env, given.cli)

\* Init and every rule keep it.
THEOREM LoadedHolds == Spec => []Loaded
<1>1. Init => Loaded
  BY DEF Init, Loaded
<1>2. Loaded /\ [Next]_vars => Loaded'
  <2> SUFFICES ASSUME Loaded, [Next]_vars PROVE Loaded'
    OBVIOUS
  <2>1. CASE Judge
    BY <2>1 DEF Judge, Loaded
  <2>2. CASE CompareReports
    BY <2>2 DEF CompareReports, Loaded
  <2>3. CASE DealOut
    BY <2>3 DEF DealOut, Loaded
  <2>4. CASE Weigh
    BY <2>4 DEF Weigh, Loaded
  <2>5. CASE Load
    <3>1. PICK yaml \in Files, env \in Environments, cli \in Overrides :
            /\ given' = [yaml |-> yaml, env |-> env, cli |-> cli]
            /\ result' = LoadConfig(yaml, env, cli)
      BY <2>5 DEF Load
    <3> QED BY <3>1 DEF Loaded
  <2>6. CASE Applied \/ UNCHANGED vars
    BY <2>6 DEF Applied, vars, Loaded
  <2> QED BY <2>1, <2>2, <2>3, <2>4, <2>5, <2>6 DEF Next
<1> QED BY <1>1, <1>2, PTL DEF Spec

\* A config that loads is the three layers merged, and is valid.
LEMMA LoadIs ==
  ASSUME Loaded, rule = "load", result.ok
  PROVE  /\ given.yaml \in Docs /\ EnvOverrides(given.env) \in Docs
         /\ DottedOverrides(given.cli) \in Docs
         /\ result.doc = WithTargetUsers(DeepMerge(DeepMerge(given.yaml, EnvOverrides(given.env)),
                                                   DottedOverrides(given.cli)))
         /\ Valid(result.doc)
<1>1. result.doc = WithTargetUsers(DeepMerge(DeepMerge(given.yaml, EnvOverrides(given.env)),
                                             DottedOverrides(given.cli)))
      /\ Valid(result.doc)
  BY DEF Loaded, LoadConfig
<1> QED BY <1>1, FilesAreDocs, EnvironmentsAre, OverridesAre DEF Loaded

\* A config that loads targets an allowed host and stays within max_users and
\* max_duration_seconds, whatever the file, the environment and the command line set.
THEOREM NoLayerEscapesSafetyHolds == Spec => []NoLayerEscapesSafety
<1>1. Loaded => NoLayerEscapesSafety
  <2> SUFFICES ASSUME Loaded, rule = "load", result.ok PROVE NoLayerEscapesSafety
    BY DEF NoLayerEscapesSafety
  <2>1. PICK doc : doc = result.doc
    OBVIOUS
  <2>2. doc \in Docs /\ Valid(doc)
    BY <2>1, LoadIs, DeepMergeDoc, TargetUsersDoc
  <2>3. LET At(section, field) == LayerAt(doc, <<section, field>>)
        IN /\ At("run", "base_url").v = At("safety", "allowed_hosts").v
           /\ At("safety", "max_users") # Null => At("run", "users").v <= At("safety", "max_users").v
           /\ At("profile", "target_users").v = At("run", "users").v
           /\ At("profile", "hold_seconds").v <= At("run", "max_duration_seconds").v
    BY <2>2, LoadedIsSafe
  <2> QED BY <2>1, <2>3 DEF NoLayerEscapesSafety
<1> QED BY <1>1, LoadedHolds, PTL

\* Every field of a config that loads has the value of the command line, else that of the
\* environment, else that of the file; and every variable is there unless it names a
\* section or the command line overrides it.
THEOREM LayersInOrderHolds == Spec => []LayersInOrder
<1>1. Loaded => LayersInOrder
  <2> SUFFICES ASSUME Loaded, rule = "load", result.ok PROVE LayersInOrder
    BY DEF LayersInOrder
  <2>1. PICK yaml, env, cli, both, merged, doc :
          /\ yaml = given.yaml /\ env = EnvOverrides(given.env) /\ cli = DottedOverrides(given.cli)
          /\ both = DeepMerge(yaml, env) /\ merged = DeepMerge(both, cli) /\ doc = result.doc
    OBVIOUS
  <2>2. /\ yaml \in Docs /\ env \in Docs /\ cli \in Docs
        /\ doc = WithTargetUsers(merged) /\ Valid(doc)
    BY <2>1, LoadIs
  <2> DEFINE Chosen(p) == IF p \in DOMAIN cli THEN cli[p] ELSE IF p \in DOMAIN env THEN env[p]
                          ELSE LayerAt(yaml, p)
  <2>3. /\ \A p \in Fields \ {TargetUsers} : LayerAt(doc, p) = Chosen(p)
        /\ LayerAt(doc, TargetUsers)
             = IF Chosen(TargetUsers) = Null THEN doc[Users] ELSE Chosen(TargetUsers)
        /\ \A p \in DOMAIN env : p = <<"run">> \/ p \in Fields \/ p \in DOMAIN cli
    BY <2>1, <2>2, LoadedInOrder
  <2>4. ASSUME <<"run">> \notin {given.env[i].path : i \in DOMAIN given.env},
               NEW v \in DOMAIN given.env, given.env[v].path \notin DOMAIN cli
        PROVE  doc[given.env[v].path] = ParseScalar(given.env[v].text)
    <3>1. PICK p, value : p = given.env[v].path /\ value = ParseScalar(given.env[v].text)
      OBVIOUS
    <3>2. p \in DOMAIN env /\ env[p] = value
      BY <2>1, <2>4, <3>1, EnvironmentsAre DEF Loaded
    <3>3. value # Null
      <4>1. given.env \in Environments
        BY DEF Loaded
      <4>2. PICK n \in Nat : given.env \in [1..n -> Variables]
        BY <4>1, RulesAssumption DEF Environments, BoundedSeq, SeqOf
      <4>3. given.env[v] \in Variables
        BY <2>4, <4>2
      <4> QED BY <3>1, <4>3, VariablesAre
    <3>4. p # <<"run">> /\ p \notin DOMAIN cli
      BY <2>4, <3>1
    <3>5. p \in Fields /\ Chosen(p) = value
      BY <2>3, <3>2, <3>4
    <3>6. LayerAt(doc, p) = value
      <4> HIDE DEF Chosen
      <4> QED BY <2>3, <3>3, <3>5
    <3> QED BY <3>1, <3>3, <3>6 DEF LayerAt
  <2> QED BY <2>1, <2>3, <2>4 DEF LayersInOrder
<1> QED BY <1>1, LoadedHolds, PTL

-----------------------------------------------------------------------------
(* Plans. *)

\* If the pool has a persona for every user, no worker has more users than personas.
LEMMA PartitionSuffices ==
  ASSUME NEW pool \in Nat, NEW users \in Nat, NEW workers \in Nat \ {0}, users <= pool,
         NEW w \in 0..workers - 1
  PROVE  TargetFor(users, workers, w) <= Cardinality(Partition(pool, workers, w))
<1> DEFINE target == TargetFor(users, workers, w)
           share == Partition(pool, workers, w)
<1>1. target \in Nat
  <2>1. w \in Nat
    OBVIOUS
  <2> QED BY <2>1, TargetBound
<1>2. IsFiniteSet(share) /\ Cardinality(share) \in Nat
  <2>1. share \subseteq 0..pool - 1 /\ IsFiniteSet(0..pool - 1)
    BY FS_Interval DEF Partition
  <2> HIDE DEF share
  <2>2. IsFiniteSet(share)
    BY <2>1, FS_Subset
  <2> QED BY <2>2, FS_CardinalityType
<1>3. IsFiniteSet(0..target - 1) /\ Cardinality(0..target - 1) = target
  <2> HIDE DEF target
  <2>1. 0 \in Int /\ target - 1 \in Int
    BY <1>1
  <2>2. /\ IsFiniteSet(0..target - 1)
        /\ Cardinality(0..target - 1) = IF 0 > target - 1 THEN 0 ELSE target - 1 - 0 + 1
    BY <2>1, FS_Interval
  <2> QED BY <1>1, <2>2
<1>4. \A j \in 0..target - 1 : w + j * workers \in share
  BY ShareSufficesHolds DEF ShareSuffices
<1>5. ASSUME NEW i \in 0..target - 1, NEW j \in 0..target - 1, w + i * workers = w + j * workers
      PROVE  i = j
  <2> HIDE DEF target
  <2>1. i \in Nat /\ j \in Nat /\ workers \in Nat
    BY <1>1
  <2>2. PICK x \in Nat, y \in Nat :
          x = i * workers /\ x = workers * i /\ y = j * workers /\ y = workers * j
    BY <2>1
  <2>3. x = y
    BY <1>5, <2>2
  <2>4. workers * i <= workers * j /\ workers * j <= workers * i
    BY <2>2, <2>3
  <2>5. i <= j /\ j <= i
    BY <2>1, <2>4, FactorLess
  <2> QED BY <2>1, <2>5
<1>6. PICK f : f = [j \in 0..target - 1 |-> w + j * workers]
  OBVIOUS
<1>7. f \in Injection(0..target - 1, share)
  <2> HIDE DEF target, share
  <2>1. f \in [0..target - 1 -> share]
    BY <1>4, <1>6
  <2>2. \A i, j \in 0..target - 1 : f[i] = f[j] => i = j
    BY <1>5, <1>6
  <2> QED BY <2>1, <2>2 DEF Injection, IsInjective
<1> HIDE DEF target, share
<1>8. Cardinality(0..target - 1) <= Cardinality(share)
  BY <1>2, <1>7, FS_Injection
<1> QED BY <1>3, <1>8 DEF target, share

\* The inductive invariant: what a rule about plans was given and what it computed.
Planned ==
  /\ rule = "deal" =>
       /\ given.pool \in Nat /\ given.users \in Nat /\ given.workers \in Nat \ {0}
       /\ result = [w \in 0..given.workers - 1 |-> Partition(given.pool, given.workers, w)]
  /\ rule = "weigh" =>
       /\ given.pool \in Nat
       /\ \E n \in Nat : n # 0 /\ given.weights \in [1..n -> Nat \ {0}]
       /\ result = Locales(given.pool, given.weights)

\* Init and every rule keep it.
THEOREM PlannedHolds == Spec => []Planned
<1>1. Init => Planned
  BY DEF Init, Planned
<1>2. Planned /\ [Next]_vars => Planned'
  <2> SUFFICES ASSUME Planned, [Next]_vars PROVE Planned'
    OBVIOUS
  <2>0. MaxPool \in Nat /\ MaxWorkers \in Nat /\ MaxWeight \in Nat
    BY RulesAssumption
  <2>1. CASE Judge
    BY <2>1 DEF Judge, Planned
  <2>2. CASE CompareReports
    BY <2>2 DEF CompareReports, Planned
  <2>3. CASE DealOut
    <3>1. PICK pool \in 1..MaxPool, users \in 1..MaxPool, workers \in 1..MaxWorkers :
            /\ given' = [pool |-> pool, users |-> users, workers |-> workers]
            /\ result' = [w \in 0..workers - 1 |-> Partition(pool, workers, w)]
      BY <2>3 DEF DealOut
    <3>2. pool \in Nat /\ users \in Nat /\ workers \in Nat \ {0}
      BY <2>0, <3>1
    <3>3. rule' = "deal"
      BY <2>3 DEF DealOut
    <3> QED BY <3>1, <3>2, <3>3 DEF Planned
  <2>4. CASE Weigh
    <3>1. PICK pool \in 1..MaxPool, n \in 1..3 : \E weights \in [1..n -> 1..MaxWeight] :
            /\ given' = [pool |-> pool, weights |-> weights]
            /\ result' = Locales(pool, weights)
      BY <2>4 DEF Weigh
    <3>2. PICK weights \in [1..n -> 1..MaxWeight] :
            /\ given' = [pool |-> pool, weights |-> weights]
            /\ result' = Locales(pool, weights)
      BY <3>1
    <3>3. 1..MaxWeight \subseteq Nat \ {0}
      BY <2>0
    <3>4. pool \in Nat /\ n \in Nat /\ n # 0 /\ weights \in [1..n -> Nat \ {0}]
      BY <2>0, <3>1, <3>2, <3>3
    <3>5. rule' = "weigh"
      BY <2>4 DEF Weigh
    <3> QED BY <3>2, <3>4, <3>5 DEF Planned
  <2>5. CASE Load
    BY <2>5 DEF Load, Planned
  <2>6. CASE Applied \/ UNCHANGED vars
    BY <2>6 DEF Applied, vars, Planned
  <2> QED BY <2>1, <2>2, <2>3, <2>4, <2>5, <2>6 DEF Next
<1> QED BY <1>1, <1>2, PTL DEF Spec

\* A plan deals every persona and every user to one worker, gives no worker more users
\* than personas, and every locale its share of the pool, for every pool and any weights.
THEOREM PlanIsFairHolds == Spec => []PlanIsFair
<1>1. Planned => PlanIsFair
  <2> SUFFICES ASSUME Planned PROVE PlanIsFair
    OBVIOUS
  <2>1. ASSUME rule = "deal"
        PROVE  /\ DealtOutOnce(given.pool, given.workers)
               /\ TargetsAddUp(given.users, given.workers)
               /\ ShareSuffices(given.pool, given.users, given.workers)
               /\ given.users <= given.pool =>
                    \A w \in DOMAIN result :
                      TargetFor(given.users, given.workers, w) <= Cardinality(result[w])
    <3>1. PICK pool, users, workers :
            pool = given.pool /\ users = given.users /\ workers = given.workers
      OBVIOUS
    <3>2. /\ pool \in Nat /\ users \in Nat /\ workers \in Nat \ {0}
          /\ result = [w \in 0..workers - 1 |-> Partition(pool, workers, w)]
      BY <2>1, <3>1 DEF Planned
    <3>3. /\ DealtOutOnce(pool, workers) /\ TargetsAddUp(users, workers)
          /\ ShareSuffices(pool, users, workers)
      BY <3>2, DealtOutOnceHolds, TargetsAddUpHolds, ShareSufficesHolds
    <3>4. ASSUME users <= pool, NEW w \in DOMAIN result
          PROVE  TargetFor(users, workers, w) <= Cardinality(result[w])
      <4>1. w \in 0..workers - 1 /\ result[w] = Partition(pool, workers, w)
        BY <3>2
      <4> QED BY <3>2, <3>4, <4>1, PartitionSuffices
    <3> QED BY <3>1, <3>3, <3>4
  <2>2. ASSUME rule = "weigh"
        PROVE  LET total == SumOf(given.weights)
                   Count(i) == Cardinality({k \in DOMAIN result : result[k] = i})
               IN /\ Len(result) = given.pool
                  /\ \A i \in DOMAIN given.weights :
                       LET excess == total * Count(i) - given.pool * given.weights[i]
                       IN -total < excess /\ excess < total
    <3>1. PICK pool, weights, list : pool = given.pool /\ weights = given.weights /\ list = result
      OBVIOUS
    <3>2. pool \in Nat /\ list = Locales(pool, weights)
      BY <2>2, <3>1 DEF Planned
    <3>3. PICK n \in Nat : n # 0 /\ weights \in [1..n -> Nat \ {0}]
      BY <2>2, <3>1 DEF Planned
    <3>4. /\ Len(list) = pool
          /\ \A i \in 1..n :
               LET excess == SumOf(weights) * Cardinality({k \in DOMAIN list : list[k] = i})
                               - pool * weights[i]
               IN -SumOf(weights) < excess /\ excess < SumOf(weights)
      BY <3>2, <3>3, LocalesFair
    <3>5. DOMAIN weights = 1..n
      BY <3>3
    <3> QED BY <3>1, <3>4, <3>5
  <2> QED BY <2>1, <2>2 DEF PlanIsFair
<1> QED BY <1>1, PlannedHolds, PTL

-----------------------------------------------------------------------------
(* The events of a run and what is made of them. *)

\* An event of a run, and the thresholds of the gate.
Request == [name : {"a", "b"}, failed : BOOLEAN, ms : 0..Slow]

\* A sequence of requests.
Recorded(events) == \E n \in Nat : events \in [1..n -> Request]

Limit == [p95 : Nat \cup {None}, rate : Nat \cup {None}]

\* The inductive invariant: what a rule about events was given and what it computed.
Judged ==
  rule = "judge" =>
    /\ Recorded(given.events)
    /\ given.config.global \in Limit
    /\ DOMAIN given.config.endpoints = {"b"} /\ given.config.endpoints["b"] \in Limit
    /\ result.summary = Summarize(given.events)
    /\ result.breaches = EvaluateSlos(given.config, result.summary)

\* What the comparison was given and what it computed.
Compared ==
  rule = "compare" =>
    /\ Recorded(given.old) /\ Recorded(given.new)
    /\ given.allowed.p95 \in Nat /\ given.allowed.rate \in Nat
    /\ given.allowed.p95 = 0 => given.allowed.rate = 0
    /\ result.there = Compare(Summarize(given.old), Summarize(given.new), given.allowed)
    /\ result.back = Compare(Summarize(given.new), Summarize(given.old), given.allowed)

\* The runs that the rules are given are sequences of requests.
LEMMA RunsRecorded ==
  ASSUME NEW max \in Nat, NEW events \in Runs(max)
  PROVE  Recorded(events)
<1>1. PICK n \in 0..max : \E s \in 0..n, f \in 0..n, b \in {0, n \div 2} : events = Events(n, s, f, b)
  BY DEF Runs
<1>2. PICK s \in 0..n, f \in 0..n, b \in {0, n \div 2} : events = Events(n, s, f, b)
  BY <1>1
<1>3. n \in Nat
  OBVIOUS
<1>4. ASSUME NEW i \in 1..n
      PROVE  [name |-> IF i > n - b THEN "b" ELSE "a",
              failed |-> i > n - f,
              ms |-> IF i <= s THEN Slow ELSE Fast] \in Request
  <2>1. Slow \in 0..Slow /\ Fast \in 0..Slow
    BY DEF Slow, Fast
  <2>2. (IF i <= s THEN Slow ELSE Fast) \in 0..Slow
    BY <2>1
  <2>3. (IF i > n - b THEN "b" ELSE "a") \in {"a", "b"}
    OBVIOUS
  <2>4. (i > n - f) \in BOOLEAN
    OBVIOUS
  <2> QED BY <2>2, <2>3, <2>4 DEF Request
<1>5. events \in [1..n -> Request]
  BY <1>2, <1>4 DEF Events
<1> QED BY <1>3, <1>5 DEF Recorded

\* Init and every rule keep the invariant.
THEOREM JudgedHolds == Spec => [](Judged /\ Compared)
<1>1. Init => Judged /\ Compared
  BY DEF Init, Judged, Compared
<1>2. Judged /\ Compared /\ [Next]_vars => Judged' /\ Compared'
  <2> SUFFICES ASSUME Judged, Compared, [Next]_vars PROVE Judged' /\ Compared'
    OBVIOUS
  <2>0. MaxEvents \in Nat /\ MaxCompared \in Nat
    BY RulesAssumption
  <2>1. CASE Judge
    <3>1. PICK events \in Runs(MaxEvents) :
            \E summary \in {Summarize(events)}, global, b \in Thresholds :
              LET config == [global |-> global, endpoints |-> [n \in {"b"} |-> b]]
              IN /\ given' = [events |-> events, config |-> config]
                 /\ result' = [summary |-> summary, breaches |-> EvaluateSlos(config, summary)]
      BY <2>1 DEF Judge
    <3>2. PICK global \in Thresholds, b \in Thresholds :
            \E config \in {[global |-> global, endpoints |-> [n \in {"b"} |-> b]]} :
              /\ given' = [events |-> events, config |-> config]
              /\ result' = [summary |-> Summarize(events),
                            breaches |-> EvaluateSlos(config, Summarize(events))]
      BY <3>1
    <3>9. PICK config :
            /\ config = [global |-> global, endpoints |-> [n \in {"b"} |-> b]]
            /\ given' = [events |-> events, config |-> config]
            /\ result' = [summary |-> Summarize(events),
                          breaches |-> EvaluateSlos(config, Summarize(events))]
      BY <3>2
    <3>3. Thresholds \subseteq Limit
      BY DEF Thresholds, Limit, Slow, Fast
    <3>4. Recorded(events)
      BY <2>0, RunsRecorded
    <3>5. rule' = "judge"
      BY <2>1 DEF Judge
    <3>6. /\ given'.events = events /\ given'.config = config
          /\ result'.summary = Summarize(events)
          /\ result'.breaches = EvaluateSlos(config, Summarize(events))
      BY <3>9
    <3>7. /\ config.global \in Limit /\ DOMAIN config.endpoints = {"b"}
          /\ config.endpoints["b"] \in Limit
      BY <3>3, <3>9
    <3>8. Judged'
      BY <3>4, <3>6, <3>7 DEF Judged
    <3> QED BY <3>5, <3>8 DEF Compared
  <2>2. CASE CompareReports
    <3>1. PICK old \in Runs(MaxCompared), new \in Runs(MaxCompared),
               allowed \in {[p95 |-> 0, rate |-> 0], [p95 |-> 3, rate |-> 30]} :
            LET o == Summarize(old)
                n == Summarize(new)
            IN /\ given' = [old |-> old, new |-> new, allowed |-> allowed]
               /\ result' = [there |-> Compare(o, n, allowed), back |-> Compare(n, o, allowed)]
      BY <2>2 DEF CompareReports
    <3>2. Recorded(old) /\ Recorded(new)
      BY <2>0, RunsRecorded
    <3>3. allowed.p95 \in Nat /\ allowed.rate \in Nat /\ (allowed.p95 = 0 => allowed.rate = 0)
      OBVIOUS
    <3>4. rule' = "compare"
      BY <2>2 DEF CompareReports
    <3>5. /\ given'.old = old /\ given'.new = new /\ given'.allowed = allowed
          /\ result'.there = Compare(Summarize(old), Summarize(new), allowed)
          /\ result'.back = Compare(Summarize(new), Summarize(old), allowed)
      BY <3>1
    <3>6. Compared'
      BY <3>2, <3>3, <3>5 DEF Compared
    <3> QED BY <3>4, <3>6 DEF Judged
  <2>3. CASE DealOut
    BY <2>3 DEF DealOut, Judged, Compared
  <2>4. CASE Weigh
    BY <2>4 DEF Weigh, Judged, Compared
  <2>5. CASE Load
    BY <2>5 DEF Load, Judged, Compared
  <2>6. CASE Applied \/ UNCHANGED vars
    BY <2>6 DEF Applied, vars, Judged, Compared
  <2> QED BY <2>1, <2>2, <2>3, <2>4, <2>5, <2>6 DEF Next
<1> QED BY <1>1, <1>2, PTL DEF Spec

\* The groups of a run: finite, with latencies.
LEMMA RunGroups ==
  ASSUME NEW events, Recorded(events), NEW group \in SUBSET (DOMAIN events)
  PROVE  /\ IsFiniteSet(group) /\ \A i \in group : events[i].ms \in Nat
         /\ Cardinality(DOMAIN events) = Len(events)
<1>1. PICK n \in Nat : events \in [1..n -> Request]
  BY DEF Recorded
<1>2. DOMAIN events = 1..n /\ Len(events) = n
  BY <1>1
<1>3. IsFiniteSet(1..n) /\ Cardinality(1..n) = n
  <2>1. IsFiniteSet(1..1 + n - 1) /\ Cardinality(1..1 + n - 1) = n
    BY IntervalSize
  <2>2. 1 + n - 1 = n
    OBVIOUS
  <2> QED BY <2>1, <2>2
<1>4. IsFiniteSet(group)
  BY <1>2, <1>3, FS_Subset
<1>5. \A i \in group : events[i].ms \in Nat
  BY <1>1, <1>2 DEF Request
<1> QED BY <1>2, <1>3, <1>4, <1>5

\* What a summary is made of.
LEMMA SummaryIsOfGroups ==
  ASSUME NEW events, Recorded(events)
  PROVE  LET summary == Summarize(events)
             names == {events[i].name : i \in DOMAIN events}
         IN /\ summary.global = Group(events, DOMAIN events)
            /\ Measured(summary.global)
            /\ DOMAIN summary.endpoints = names /\ names \subseteq {"a", "b"}
            /\ \A n \in names : /\ summary.endpoints[n] = Group(events, OfName(events, n))
                                /\ OfName(events, n) \in SUBSET (DOMAIN events)
                                /\ Measured(summary.endpoints[n])
<1> DEFINE summary == Summarize(events)
           names == {events[i].name : i \in DOMAIN events}
<1>1. /\ summary.global = Group(events, DOMAIN events)
      /\ DOMAIN summary.endpoints = names
      /\ \A n \in names : summary.endpoints[n] = Group(events, OfName(events, n))
  BY DEF Summarize
<1>2. names \subseteq {"a", "b"}
  BY DEF Recorded, Request
<1>3. Measured(Group(events, DOMAIN events))
  BY RunGroups, GroupMeasured
<1>4. \A n : OfName(events, n) \in SUBSET (DOMAIN events) /\ Measured(Group(events, OfName(events, n)))
  <2> TAKE n
  <2>1. OfName(events, n) \in SUBSET (DOMAIN events)
    BY DEF OfName
  <2> QED BY <2>1, RunGroups, GroupMeasured
<1> HIDE DEF summary, names
<1> QED BY <1>1, <1>2, <1>3, <1>4 DEF summary, names

\* The percentiles of a group of the events given mean what they are meant to.
LEMMA LatencyMeans ==
  ASSUME NEW events, Recorded(events), NEW group \in SUBSET (DOMAIN events), group # {},
         NEW limit \in Int, NEW p \in Percents
  PROVE  Group(events, group).latency[p] <= limit
           <=> 100 * Cardinality(Within(events, group, limit)) >= p * Cardinality(group)
<1>1. IsFiniteSet(group) /\ \A i \in group : events[i].ms \in Nat
  BY RunGroups
<1>2. Group(events, group).latency = LatencySummary(events, group)
  BY DEF Group
<1>3. LatencySummary(events, group)[p] <= limit
        <=> p * Cardinality(group) <= 100 * Cardinality(UpTo(events, group, limit))
  BY <1>1, PercentileCounts
<1>4. Within(events, group, limit) = UpTo(events, group, limit)
  BY DEF Within, UpTo
<1>5. Cardinality(group) \in Nat /\ Cardinality(UpTo(events, group, limit)) \in Nat
  <2>1. UpTo(events, group, limit) \in SUBSET group
    BY DEF UpTo
  <2> QED BY <1>1, <2>1, PartCounts, FS_CardinalityType
<1>6. p \in Nat /\ p * Cardinality(group) \in Nat
  BY <1>5, Percentage DEF Percents
<1> QED BY <1>2, <1>3, <1>4, <1>5, <1>6

\* The endpoints share out the requests, and the failures.
LEMMA EndpointsAddUp ==
  ASSUME NEW events, Recorded(events), NEW field \in {"total", "failures"}
  PROVE  Total(Summarize(events).endpoints, field, DOMAIN Summarize(events).endpoints)
           = Summarize(events).global[field]
<1> DEFINE summary == Summarize(events)
           names == {events[i].name : i \in DOMAIN events}
           name == [i \in DOMAIN events |-> events[i].name]
           I == IF field = "total" THEN DOMAIN events ELSE Failures(events, DOMAIN events)
<1>1. /\ DOMAIN summary.endpoints = names /\ names \subseteq {"a", "b"}
      /\ summary.global = Group(events, DOMAIN events)
      /\ \A n \in names : summary.endpoints[n] = Group(events, OfName(events, n))
  BY SummaryIsOfGroups
<1>2. I \in SUBSET (DOMAIN events)
  BY DEF Failures
<1>3. IsFiniteSet(I)
  <2> HIDE DEF I
  <2> QED BY <1>2, RunGroups
<1>4. IsFiniteSet(names)
  <2>1. IsFiniteSet({"a", "b"})
    <3>1. IsFiniteSet({"b"}) /\ {"a", "b"} = {"b"} \cup {"a"}
      BY FS_Singleton
    <3> QED BY <3>1, FS_AddElement
  <2> HIDE DEF names
  <2> QED BY <1>1, <2>1, FS_Subset
<1>5. \A i \in I : name[i] \in names
  BY <1>2
<1>6. summary.global[field] = Cardinality(I)
  BY <1>1 DEF Group
<1>7. \A n \in names : summary.endpoints[n][field] = Cardinality({i \in I : name[i] = n})
  <2> SUFFICES ASSUME NEW n \in names
               PROVE  summary.endpoints[n][field] = Cardinality({i \in I : name[i] = n})
    OBVIOUS
  <2>1. summary.endpoints[n] = Group(events, OfName(events, n))
    BY <1>1
  <2>2. CASE field = "total"
    <3>1. {i \in I : name[i] = n} = OfName(events, n)
      BY <2>2 DEF OfName
    <3>2. Group(events, OfName(events, n))[field] = Cardinality(OfName(events, n))
      BY <2>2 DEF Group
    <3> QED BY <2>1, <3>1, <3>2
  <2>3. CASE field = "failures"
    <3>1. {i \in I : name[i] = n} = Failures(events, OfName(events, n))
      BY <2>3 DEF OfName, Failures
    <3>2. Group(events, OfName(events, n))[field] = Cardinality(Failures(events, OfName(events, n)))
      BY <2>3 DEF Group
    <3> QED BY <2>1, <3>1, <3>2
  <2> QED BY <2>2, <2>3
<1> HIDE DEF summary, names, name, I
<1>8. Total(summary.endpoints, field, names) = Cardinality(I)
  BY <1>3, <1>4, <1>5, <1>7, CountedByName
<1> QED BY <1>1, <1>6, <1>8 DEF summary

\* What summaries say of the latencies, the requests and the failures of a run.
THEOREM SummaryCountsHolds == Spec => []SummaryCounts
<1>1. Judged => SummaryCounts
  <2> SUFFICES ASSUME Judged, rule = "judge" PROVE SummaryCounts
    BY DEF SummaryCounts
  <2> DEFINE events == given.events
             summary == result.summary
             Means(s, group) ==
               group # {} =>
                 \A limit \in {0, Fast, Slow - 1, Slow} :
                   LET within == Cardinality(Within(events, group, limit))
                   IN \A p \in Percents : s.latency[p] <= limit <=> 100 * within >= p * Cardinality(group)
  <2>1. Recorded(events) /\ summary = Summarize(events)
    BY DEF Judged
  <2>2. /\ summary.global = Group(events, DOMAIN events)
        /\ \A n \in DOMAIN summary.endpoints :
             /\ summary.endpoints[n] = Group(events, OfName(events, n))
             /\ OfName(events, n) \in SUBSET (DOMAIN events)
    BY <2>1, SummaryIsOfGroups
  <2>3. {0, Fast, Slow - 1, Slow} \subseteq Int
    BY DEF Fast, Slow
  <2>4. ASSUME NEW group \in SUBSET (DOMAIN events) PROVE Means(Group(events, group), group)
    <3> HIDE DEF events, summary
    <3> QED BY <2>1, <2>3, LatencyMeans
  <2>5. /\ Means(summary.global, DOMAIN events)
        /\ \A n \in DOMAIN summary.endpoints : Means(summary.endpoints[n], OfName(events, n))
    <3> HIDE DEF events, summary, Means
    <3> QED BY <2>2, <2>4
  <2>6. summary.global.total = Len(events)
    <3>1. DOMAIN events \in SUBSET (DOMAIN events)
      OBVIOUS
    <3>2. summary.global.total = Cardinality(DOMAIN events)
      BY <2>2 DEF Group
    <3> QED BY <2>1, <3>1, <3>2, RunGroups
  <2>7. ASSUME NEW f \in {"total", "failures"}
        PROVE  FoldSet(LAMBDA n, sum : sum + summary.endpoints[n][f], 0, DOMAIN summary.endpoints)
                 = summary.global[f]
    <3>1. Total(summary.endpoints, f, DOMAIN summary.endpoints) = summary.global[f]
      BY <2>1, EndpointsAddUp
    <3> QED BY <3>1 DEF Total, FoldSet, MapThenFoldSet
  <2> QED BY <2>5, <2>6, <2>7 DEF SummaryCounts
<1>2. Spec => []Judged
  BY JudgedHolds, PTL
<1> QED BY <1>1, <1>2, PTL

\* When the gate lets a run pass.
THEOREM GateCountsHolds == Spec => []GateCounts
<1>1. Judged => GateCounts
  <2> SUFFICES ASSUME Judged, rule = "judge" PROVE GateCounts
    BY DEF GateCounts
  <2>1. PICK events, config :
          /\ events = given.events /\ Recorded(events) /\ config = given.config
          /\ config.global \in Limit
          /\ DOMAIN config.endpoints = {"b"} /\ config.endpoints["b"] \in Limit
          /\ result.breaches = EvaluateSlos(config, Summarize(events))
    BY DEF Judged
  <2>2. PICK summary : summary = Summarize(events)
    OBVIOUS
  <2>3. /\ summary.global = Group(events, DOMAIN events)
        /\ DOMAIN summary.endpoints = {events[i].name : i \in DOMAIN events}
        /\ \A n \in DOMAIN summary.endpoints : summary.endpoints[n] = Group(events, OfName(events, n))
    BY <2>1, <2>2, SummaryIsOfGroups
  <2> DEFINE Good(limit, group) ==
               /\ \/ limit.p95 = None
                  \/ 100 * Cardinality(Within(events, group, limit.p95)) >= 95 * Cardinality(group)
               /\ \/ limit.rate = None
                  \/ 100 * Cardinality(Failures(events, group)) <= limit.rate * Cardinality(group)
  <2>4. ASSUME NEW limit \in Limit, NEW group \in SUBSET (DOMAIN events), NEW scope
        PROVE  /\ Good(limit, group) <=> Keeps(events, limit, group)
               /\ Breaches(scope, limit, Group(events, group)) = {} <=> Keeps(events, limit, group)
    <3>1. IsFiniteSet(group) /\ \A i \in group : events[i].ms \in Nat
      BY <2>1, RunGroups
    <3>2. limit.p95 \in Nat \cup {None} /\ limit.rate \in Nat \cup {None}
      BY DEF Limit
    <3>3. Within(events, group, limit.p95) = UpTo(events, group, limit.p95)
      BY DEF Within, UpTo
    <3>4. Cardinality(group) \in Nat /\ Cardinality(UpTo(events, group, limit.p95)) \in Nat
      <4>1. UpTo(events, group, limit.p95) \in SUBSET group
        BY DEF UpTo
      <4> QED BY <3>1, <4>1, PartCounts, FS_CardinalityType
    <3>5. Good(limit, group) <=> Keeps(events, limit, group)
      BY <3>3, <3>4 DEF Keeps
    <3> QED BY <3>1, <3>2, <3>5, GateKeeps
  <2>5. OfName(events, "b") \in SUBSET (DOMAIN events)
    BY DEF OfName
  <2>6. Breaches("global", config.global, summary.global) = {} <=> Good(config.global, DOMAIN events)
    <3>1. DOMAIN events \in SUBSET (DOMAIN events)
      OBVIOUS
    <3> HIDE DEF Good
    <3> QED BY <2>1, <2>3, <2>4, <3>1
  <2>7. CASE "b" \in DOMAIN summary.endpoints
    <3>1. Breaches("b", config.endpoints["b"], summary.endpoints["b"]) = {}
            <=> Good(config.endpoints["b"], OfName(events, "b"))
      <4>1. summary.endpoints["b"] = Group(events, OfName(events, "b"))
        BY <2>3, <2>7
      <4> HIDE DEF Good
      <4> QED BY <2>1, <2>4, <2>5, <4>1
    <3>2. EvaluateSlos(config, summary)
            = Breaches("global", config.global, summary.global)
                \cup Breaches("b", config.endpoints["b"], summary.endpoints["b"])
      <4>1. DOMAIN config.endpoints \cap DOMAIN summary.endpoints = {"b"}
        BY <2>1, <2>7
      <4> QED BY <4>1 DEF EvaluateSlos
    <3> QED BY <2>1, <2>2, <2>6, <3>1, <3>2 DEF GateCounts
  <2>8. CASE "b" \notin DOMAIN summary.endpoints
    <3>1. OfName(events, "b") = {}
      BY <2>3, <2>8 DEF OfName
    <3>2. Good(config.endpoints["b"], OfName(events, "b"))
      <4>1. Cardinality(OfName(events, "b")) = 0
        BY <3>1, FS_EmptySet
      <4>2. /\ Cardinality(Within(events, OfName(events, "b"), config.endpoints["b"].p95)) = 0
            /\ Cardinality(Failures(events, OfName(events, "b"))) = 0
        <5>1. /\ Within(events, OfName(events, "b"), config.endpoints["b"].p95) = {}
              /\ Failures(events, OfName(events, "b")) = {}
          BY <3>1 DEF Within, Failures
        <5> QED BY <5>1, FS_EmptySet
      <4>3. config.endpoints["b"].rate = None \/ config.endpoints["b"].rate * 0 = 0
        BY <2>1 DEF Limit
      <4> QED BY <4>1, <4>2, <4>3
    <3>3. EvaluateSlos(config, summary) = Breaches("global", config.global, summary.global)
      <4>1. DOMAIN config.endpoints \cap DOMAIN summary.endpoints = {}
        BY <2>1, <2>8
      <4> QED BY <4>1 DEF EvaluateSlos
    <3> QED BY <2>1, <2>2, <2>6, <3>2, <3>3 DEF GateCounts
  <2> QED BY <2>7, <2>8
<1>2. Spec => []Judged
  BY JudgedHolds, PTL
<1> QED BY <1>1, <1>2, PTL

-----------------------------------------------------------------------------
(* The comparison of two reports. *)

\* A report has a scope for the run and one for each of its endpoints.
LEMMA ScopesAre ==
  ASSUME NEW events, Recorded(events)
  PROVE  LET scopes == Scopes(Summarize(events))
         IN /\ DOMAIN scopes = {"global"} \cup Names(events) /\ Names(events) \subseteq {"a", "b"}
            /\ \A s \in DOMAIN scopes : /\ scopes[s] = Group(events, Part(events, s))
                                        /\ Measured(scopes[s])
<1>1. PICK report : report = Summarize(events)
  OBVIOUS
<1>2. /\ report.global = Group(events, DOMAIN events) /\ Measured(report.global)
      /\ DOMAIN report.endpoints = Names(events) /\ Names(events) \subseteq {"a", "b"}
      /\ \A n \in Names(events) : /\ report.endpoints[n] = Group(events, OfName(events, n))
                                  /\ Measured(report.endpoints[n])
  BY <1>1, SummaryIsOfGroups DEF Names
<1>3. /\ DOMAIN Scopes(report) = {"global"} \cup DOMAIN report.endpoints
      /\ \A s \in DOMAIN Scopes(report) :
           Scopes(report)[s] = IF s = "global" THEN report.global ELSE report.endpoints[s]
  BY DEF Scopes
<1>4. ASSUME NEW s \in DOMAIN Scopes(report)
      PROVE  Scopes(report)[s] = Group(events, Part(events, s)) /\ Measured(Scopes(report)[s])
  <2>1. CASE s = "global"
    BY <1>2, <1>3, <2>1 DEF Part
  <2>2. CASE s # "global"
    <3>1. s \in Names(events)
      BY <1>2, <1>3, <2>2
    <3> QED BY <1>2, <1>3, <2>2, <3>1 DEF Part
  <2> QED BY <2>1, <2>2
<1> QED BY <1>1, <1>2, <1>3, <1>4

\* The requests of a scope are some of the run.
LEMMA PartIs == \A events, s : Part(events, s) \in SUBSET (DOMAIN events)
BY DEF Part, OfName

\* The 95th percentile of a scope is the least limit that 95 percent of its requests keep.
LEMMA EnoughMeans ==
  ASSUME NEW events, Recorded(events), NEW s
  PROVE  LET x == Group(events, Part(events, s)).latency[95]
         IN x \in 0..Slow /\ \A limit \in Nat : x <= limit <=> Enough(events, s, limit)
<1>1. PICK group : group = Part(events, s)
  OBVIOUS
<1>2. group \in SUBSET (DOMAIN events)
  BY <1>1, PartIs
<1>3. PICK x : x = Group(events, group).latency[95]
  OBVIOUS
<1>4. /\ IsFiniteSet(group) /\ Cardinality(group) \in Nat
      /\ \A i \in group : events[i].ms \in 0..Slow /\ events[i].ms \in Nat
  <2>1. IsFiniteSet(group)
    BY <1>2, RunGroups
  <2>2. \A i \in group : events[i].ms \in 0..Slow
    BY <1>2 DEF Recorded, Request
  <2>3. \A i \in group : events[i].ms \in Nat
    BY <2>2
  <2> QED BY <2>1, <2>2, <2>3, FS_CardinalityType
<1>5. Measured(Group(events, group)) /\ Group(events, group).total = Cardinality(group)
  BY <1>4, GroupMeasured
<1>6. x \in Nat
  BY <1>3, <1>5 DEF Measured
<1>7. ASSUME NEW limit \in Nat PROVE x <= limit <=> Enough(events, s, limit)
  <2>1. CASE group = {}
    <3>1. Cardinality(group) = 0 /\ Within(events, group, limit) = {}
      BY <2>1, FS_EmptySet DEF Within
    <3>2. x = 0 /\ Cardinality(Within(events, group, limit)) = 0
      BY <1>3, <1>5, <3>1, FS_EmptySet DEF Measured
    <3>3. Enough(events, s, limit) <=> 100 * 0 >= 95 * 0
      BY <1>1, <3>1, <3>2 DEF Enough
    <3> QED BY <3>2, <3>3
  <2>2. CASE group # {}
    <3>1. 95 \in Percents /\ limit \in Int
      BY DEF Percents
    <3>2. x <= limit <=> 100 * Cardinality(Within(events, group, limit)) >= 95 * Cardinality(group)
      BY <1>2, <1>3, <2>2, <3>1, LatencyMeans
    <3> QED BY <1>1, <3>2 DEF Enough
  <2> QED BY <2>1, <2>2
<1>8. x <= Slow
  <2>1. Slow \in Nat
    BY DEF Slow
  <2>2. Within(events, group, Slow) = group
    BY <1>4 DEF Within
  <2>3. 100 * Cardinality(group) >= 95 * Cardinality(group)
    BY <1>4
  <2>4. Enough(events, s, Slow)
    BY <1>1, <2>2, <2>3 DEF Enough
  <2> QED BY <1>7, <2>1, <2>4
<1>9. x \in 0..Slow
  BY <1>6, <1>8 DEF Slow
<1> QED BY <1>1, <1>3, <1>7, <1>9

\* A scope has become slower exactly if its 95th percentile has grown by more than allowed.
LEMMA SlowerMeans ==
  ASSUME NEW old, Recorded(old), NEW new, Recorded(new), NEW s, NEW allowance \in Nat
  PROVE  Slower(old, new, s, allowance)
           <=> Group(new, Part(new, s)).latency[95] - Group(old, Part(old, s)).latency[95] > allowance
<1>1. PICK x : /\ x = Group(old, Part(old, s)).latency[95] /\ x \in 0..Slow
               /\ \A limit \in Nat : x <= limit <=> Enough(old, s, limit)
  BY EnoughMeans
<1>2. PICK y : /\ y = Group(new, Part(new, s)).latency[95] /\ y \in 0..Slow
               /\ \A limit \in Nat : y <= limit <=> Enough(new, s, limit)
  BY EnoughMeans
<1>3. x \in Nat /\ y \in Nat
  BY <1>1, <1>2
<1>4. ASSUME y - x > allowance PROVE Slower(old, new, s, allowance)
  <2>1. x + allowance \in Nat /\ ~(y <= x + allowance) /\ x <= x
    BY <1>3, <1>4
  <2>2. Enough(old, s, x) /\ ~Enough(new, s, x + allowance)
    BY <1>1, <1>2, <1>3, <2>1
  <2> QED BY <1>1, <2>2 DEF Slower
<1>5. ASSUME Slower(old, new, s, allowance) PROVE y - x > allowance
  <2>1. PICK limit \in 0..Slow : Enough(old, s, limit) /\ ~Enough(new, s, limit + allowance)
    BY <1>5 DEF Slower
  <2>2. limit \in Nat /\ limit + allowance \in Nat
    BY <2>1
  <2>3. x <= limit /\ ~(y <= limit + allowance)
    BY <1>1, <1>2, <2>1, <2>2
  <2> QED BY <1>3, <2>2, <2>3
<1> QED BY <1>1, <1>2, <1>4, <1>5

\* A scope fails more exactly if its error rate has grown by more than is allowed.
LEMMA FailsMoreMeans ==
  ASSUME NEW old, Recorded(old), NEW new, Recorded(new), NEW s, NEW allowance
  PROVE  LET delta == RateDelta(Group(old, Part(old, s)), Group(new, Part(new, s)))
         IN FailsMore(old, new, s, allowance) <=> 100 * delta.num > allowance * delta.den
<1>1. ASSUME NEW events, Recorded(events)
      PROVE  LET group == Part(events, s)
                 rate == Rate(Group(events, group))
             IN /\ rate.num = Cardinality(Failures(events, group))
                /\ rate.den = IF group = {} THEN 1 ELSE Cardinality(group)
  <2>1. PICK group : group = Part(events, s)
    OBVIOUS
  <2>2. IsFiniteSet(group)
    BY <1>1, <2>1, PartIs, RunGroups
  <2>3. Cardinality(group) = 0 <=> group = {}
    BY <2>2, FS_EmptySet
  <2>4. /\ Group(events, group).total = Cardinality(group)
        /\ Group(events, group).failures = Cardinality(Failures(events, group))
    BY DEF Group
  <2> QED BY <2>1, <2>3, <2>4 DEF Rate
<1>2. PICK a, b : a = Rate(Group(old, Part(old, s))) /\ b = Rate(Group(new, Part(new, s)))
  OBVIOUS
<1>3. /\ a.num = Cardinality(Failures(old, Part(old, s)))
      /\ a.den = IF Part(old, s) = {} THEN 1 ELSE Cardinality(Part(old, s))
      /\ b.num = Cardinality(Failures(new, Part(new, s)))
      /\ b.den = IF Part(new, s) = {} THEN 1 ELSE Cardinality(Part(new, s))
  BY <1>1, <1>2
<1>4. FailsMore(old, new, s, allowance)
        <=> 100 * (b.num * a.den - a.num * b.den) > allowance * (b.den * a.den)
  BY <1>3 DEF FailsMore
<1> QED BY <1>2, <1>4 DEF RateDelta

\* What a comparison finds, counted from the requests of the two runs, and that it finds
\* one way what it finds the other way.
THEOREM ComparisonIsFairHolds == Spec => []ComparisonIsFair
<1>1. Compared => ComparisonIsFair
  <2> SUFFICES ASSUME Compared, rule = "compare" PROVE ComparisonIsFair
    BY DEF ComparisonIsFair
  <2>1. PICK old, new, allowed :
          /\ old = given.old /\ new = given.new /\ allowed = given.allowed
          /\ Recorded(old) /\ Recorded(new)
          /\ allowed.p95 \in Nat /\ allowed.rate \in Nat
          /\ allowed.p95 = 0 => allowed.rate = 0
          /\ result.there = Compare(Summarize(old), Summarize(new), allowed)
          /\ result.back = Compare(Summarize(new), Summarize(old), allowed)
    BY DEF Compared
  <2>2. PICK o, n : o = Scopes(Summarize(old)) /\ n = Scopes(Summarize(new))
    OBVIOUS
  <2>3. PICK both : both = DOMAIN o \cap DOMAIN n
    OBVIOUS
  <2>4. /\ DOMAIN o = {"global"} \cup Names(old) /\ DOMAIN n = {"global"} \cup Names(new)
        /\ Names(old) \subseteq {"a", "b"} /\ Names(new) \subseteq {"a", "b"}
        /\ \A s \in both : /\ o[s] = Group(old, Part(old, s)) /\ Measured(o[s])
                           /\ n[s] = Group(new, Part(new, s)) /\ Measured(n[s])
    BY <2>1, <2>2, <2>3, ScopesAre
  <2>5. both = {"global"} \cup (Names(old) \cap Names(new))
    BY <2>3, <2>4
  <2>6. /\ result.there.regressions = UNION {Regressions(s, o[s], n[s], allowed) : s \in both}
        /\ result.there.added = DOMAIN n \ DOMAIN o
        /\ result.there.removed = DOMAIN o \ DOMAIN n
        /\ result.back.improvements = UNION {Improvements(s, n[s], o[s]) : s \in both}
    <3>1. both = DOMAIN n \cap DOMAIN o
      BY <2>3
    <3> QED BY <2>1, <2>2, <2>3, <3>1 DEF Compare
  <2>7. ASSUME NEW s \in both
        PROVE  /\ <<s, "p95">> \in result.there.regressions <=> Slower(old, new, s, allowed.p95)
               /\ <<s, "rate">> \in result.there.regressions <=> FailsMore(old, new, s, allowed.rate)
    <3>1. \A m : <<s, m>> \in result.there.regressions <=> <<s, m>> \in Regressions(s, o[s], n[s], allowed)
      <4>1. \A t \in both : \A m : <<s, m>> \in Regressions(t, o[t], n[t], allowed) => s = t
        BY DEF Regressions
      <4> QED BY <2>6, <4>1
    <3>2. /\ <<s, "p95">> \in Regressions(s, o[s], n[s], allowed)
               <=> n[s].latency[95] - o[s].latency[95] > allowed.p95
          /\ <<s, "rate">> \in Regressions(s, o[s], n[s], allowed)
               <=> 100 * RateDelta(o[s], n[s]).num > allowed.rate * RateDelta(o[s], n[s]).den
      BY DEF Regressions
    <3>3. Slower(old, new, s, allowed.p95) <=> n[s].latency[95] - o[s].latency[95] > allowed.p95
      BY <2>1, <2>4, SlowerMeans
    <3>4. FailsMore(old, new, s, allowed.rate)
            <=> 100 * RateDelta(o[s], n[s]).num > allowed.rate * RateDelta(o[s], n[s]).den
      BY <2>1, <2>4, FailsMoreMeans
    <3> QED BY <3>1, <3>2, <3>3, <3>4
  <2>8. result.there.regressions \subseteq both \X {"p95", "rate"}
    <3>1. \A s \in both : Regressions(s, o[s], n[s], allowed) \subseteq both \X {"p95", "rate"}
      BY DEF Regressions
    <3> QED BY <2>6, <3>1
  <2>9. /\ result.there.added = Names(new) \ Names(old)
        /\ result.there.removed = Names(old) \ Names(new)
    BY <2>4, <2>6
  <2>10. result.there.regressions \subseteq result.back.improvements
    <3>1. \A s \in both : Regressions(s, o[s], n[s], allowed) \subseteq Improvements(s, n[s], o[s])
      BY <2>1, <2>4, WorseIsBetter
    <3> QED BY <2>6, <3>1
  <2>11. allowed.p95 = 0 => result.there.regressions = result.back.improvements
    <3>1. ASSUME allowed.p95 = 0
          PROVE  \A s \in both : Regressions(s, o[s], n[s], allowed) = Improvements(s, n[s], o[s])
      BY <2>1, <2>4, <3>1, WorseIsBetter
    <3> QED BY <2>6, <3>1
  <2> QED BY <2>1, <2>5, <2>7, <2>8, <2>9, <2>10, <2>11 DEF ComparisonIsFair
<1>2. Spec => []Compared
  BY JudgedHolds, PTL
<1> QED BY <1>1, <1>2, PTL

=============================================================================
