-------------------------- MODULE SnapshotValidation --------------------------
(***************************************************************************)
(* The validation of a snapshot (validate_project) and the digest by which *)
(* two rebuilds are compared (semantic_digest).                            *)
(*                                                                         *)
(* A snapshot is what its stores, its manifest and its raw manifest say;   *)
(* before it is validated a decoder's defect or damage may have changed    *)
(* what an ingest wrote.  Validation reads the stores, the raw evidence    *)
(* and the policy one after the other, and collects errors, which reject   *)
(* the snapshot, and limitations, which qualify it.  Of the digest only    *)
(* its input is kept: the rows of a table in the order they are hashed.    *)
(***************************************************************************)
EXTENDS Integers, FiniteSets, Sequences, SequencesExt

CONSTANTS
  Intact,        \* snapshots as an ingest leaves them, see WellFormed
  Policies,      \* [required, minimum, allowed, records, turns, decoder]
  Settings,      \* [rawStore, current]: a raw store is given; references are compared
  Unset,         \* SQL NULL
  MaxDamage,     \* bound on the defects of a snapshot
  Logical,       \* rows of a table but for their surrogate id: [key, value, observation]
  MaxRows        \* bound on the rows of a table

\* Rows are of the stores listed, Events of the Sessions, and only what can be
\* read has a format.
WellFormed(x) ==
  /\ DOMAIN x = {"stores", "format", "readable", "decoder", "sealed", "events", "sessions",
                 "counts", "artifacts", "links", "diagnostics", "turns", "raws"}
  /\ x.format \subseteq x.stores /\ IsFiniteSet(x.events) /\ DOMAIN x.counts = x.stores
  /\ \A e \in x.events : /\ DOMAIN e = {"row", "store", "session", "seq", "entity"}
                         /\ e.store \in x.stores /\ <<e.store, e.session>> \in x.sessions
                         /\ e.seq \in Nat \cup {Unset}
  /\ \A a \in x.artifacts : DOMAIN a = {"row", "store", "path", "uri"} /\ a.store \in x.stores

ASSUME ValidationAssumption ==
  /\ MaxDamage \in Nat /\ MaxRows \in Nat /\ Unset \notin Nat
  /\ \A x \in Intact : WellFormed(x)
  /\ \A r \in Logical :
       r.key \in Nat /\ r = [key |-> r.key, value |-> r.value, observation |-> r.observation]

Cursor == "cursor"

VARIABLES
  subject,    \* the snapshot
  policy,     \* the validation policy
  setting,    \* how validation was asked for
  damage,     \* defects so far
  check,      \* "idle", "header", "stores", "raw", "policy", "done"
  errors,     \* checks that failed
  limits,     \* raw records whose evidence is not established
  verdict,    \* "none", "rejected", "accepted_with_limitations", "accepted"
  left, right \* a table of two rebuilds, in the order of insertion

validationVars == <<subject, policy, setting, damage, check, errors, limits, verdict>>
digestVars     == <<left, right>>

ValidationTypeOK ==
  /\ WellFormed(subject)
  /\ policy \in Policies /\ setting \in Settings /\ damage \in 0..MaxDamage
  /\ check \in {"idle", "header", "stores", "raw", "policy", "done"}
  /\ limits \subseteq subject.raws
  /\ verdict \in {"none", "rejected", "accepted_with_limitations", "accepted"}
  /\ {left, right} \subseteq Seq(Logical) /\ Len(left) <= MaxRows /\ Len(right) <= MaxRows

ValidationInit ==
  /\ subject \in Intact /\ policy \in Policies /\ setting \in Settings
  /\ damage = 0 /\ check = "idle" /\ errors = {} /\ limits = {} /\ verdict = "none"

DigestInit == left = <<>> /\ right = <<>>

-----------------------------------------------------------------------------
\* What may be wrong with a snapshot that is looked at.
Numbers == {e.seq : e \in subject.events} \cup {Unset, 0}

GoWrong ==
  /\ check = "idle" /\ damage < MaxDamage /\ damage' = damage + 1
  /\ \/ \E e \in subject.events : subject' = [subject EXCEPT !.events = @ \ {e}]
     \/ \E e \in subject.events, n \in Numbers :
          subject' = [subject EXCEPT !.events = (@ \ {e}) \cup {[e EXCEPT !.seq = n]}]
     \/ \E e, f \in subject.events :
          subject' = [subject EXCEPT !.events = (@ \ {e}) \cup {[e EXCEPT !.entity = f.entity]}]
     \/ \E a \in subject.links : subject' = [subject EXCEPT !.links = @ \ {a}]
     \/ \E a, b \in subject.artifacts :
          subject' = [subject EXCEPT !.artifacts = (@ \ {a}) \cup {[a EXCEPT !.uri = b.uri]}]
     \/ \E t \in subject.turns, i \in {u.interaction : u \in subject.turns} \cup {Unset} :
          subject' = [subject EXCEPT !.turns = (@ \ {t}) \cup {[t EXCEPT !.interaction = i]}]
     \/ \E r \in subject.raws :
          subject' = [subject EXCEPT !.raws =
                        (@ \ {r}) \cup {[r EXCEPT !.object = "damaged", !.source = "changed"]}]
     \/ \E r \in subject.raws :
          subject' = [subject EXCEPT !.raws = (@ \ {r}) \cup {[r EXCEPT !.source = "unreachable"]}]
     \/ \E s \in subject.stores : subject' = [subject EXCEPT !.format = @ \ {s}]
     \/ subject' = [subject EXCEPT !.readable = FALSE]
     \/ subject' = [subject EXCEPT !.decoder = 0]
  /\ subject' # subject
  /\ UNCHANGED <<policy, setting, check, errors, limits, verdict>>

-----------------------------------------------------------------------------
\* The statements of _validate_store.  A Session without Events is not grouped,
\* and what is NULL is neither counted nor compared.
SessionsOf(s)   == {e.session : e \in {f \in subject.events : f.store = s}}
EventsOf(s, i)  == {e \in subject.events : e.store = s /\ e.session = i}
Values(E)       == {e.seq : e \in E} \ {Unset}

\* Faulty variant: a number may be there twice.
MisnumberedBounds(E) ==
  \/ Values(E) # {} /\ (Min(Values(E)) # 1 \/ Max(Values(E)) # Cardinality(E))
  \/ \E e \in E : e.seq = Unset

Misnumbered(E) ==
  \/ Values(E) # {} /\ (Min(Values(E)) # 1 \/ Max(Values(E)) # Cardinality(E))
  \/ Cardinality(Values(E)) # Cardinality(E)
  \/ \E e \in E : e.seq = Unset

\* COUNT(*) - COUNT(DISTINCT entity), and groups of artifacts of one value.
Duplicated(s) ==
  LET E == {e \in subject.events : e.store = s}
  IN  Cardinality({e.entity : e \in E}) # Cardinality(E)

SharedValue(s) ==
  \E a, b \in {x \in subject.artifacts : x.store = s} : a # b /\
    \/ a.path = b.path /\ a.path # Unset
    \/ a.uri = b.uri /\ a.uri # Unset

StoreErrors(s) ==
  IF s \notin subject.format THEN {<<s, "format">>}
  ELSE {x \in {<<s, "manifest_counts">>, <<s, "event_sequence">>, <<s, "entity_identity">>,
               <<s, "artifact_identity">>} :
          CASE x[2] = "manifest_counts" ->
                 subject.counts[s] # Cardinality({e \in subject.events : e.store = s})
            [] x[2] = "event_sequence"  -> \E i \in SessionsOf(s) : Misnumbered(EventsOf(s, i))
            [] x[2] = "entity_identity" -> Duplicated(s)
            [] OTHER -> SharedValue(s) \/ \E a \in subject.artifacts : a.store = s /\ a.row \notin subject.links}

\* Refusals of the stores that could be read, by their reason.
Diagnosed(x) ==
  LET known == {d \in x.diagnostics : d.store \in x.format}
  IN  [r \in {d.reason : d \in known} |->
         FoldSet(LAMBDA d, n : n + d.count, 0, {d \in known : d.reason = r})]

\* One record of the raw manifest: an object is read where it should be, and
\* a reference only compared with what stands there now.
RawErrors(r) ==
  CASE r.availability = "captured"  -> (subject.sealed \/ setting.rawStore) /\ r.object # "intact"
    [] r.availability = "reference" -> setting.current /\ r.source = "changed"
    [] r.availability = "not_retained" -> FALSE
    [] OTHER -> TRUE

RawLimited(r) ==
  CASE r.availability = "captured" -> ~(subject.sealed \/ setting.rawStore)
    [] OTHER -> r.availability \in {"reference", "not_retained"}

EventsIn(s) == {e \in subject.events : e.store = s}

\* The turns the policy asks of Cursor: inferred, at most one per interaction.
TurnErrors ==
  policy.turns /\
    \/ Cursor \notin subject.stores
    \/ \E t \in subject.turns : ~t.inferred \/ t.interaction = Unset
    \/ \E t, u \in subject.turns : t # u /\ t.interaction = u.interaction

PolicyErrors ==
       {<<s, "required">> : s \in {x \in policy.required : ~ \E i \in subject.sessions : i[1] = x}}
  \cup {<<s, "minimum">> : s \in {x \in DOMAIN policy.minimum :
                                    Cardinality(EventsIn(x)) < policy.minimum[x]}}
  \cup {<<r, "diagnostics">> : r \in {x \in DOMAIN Diagnosed(subject) :
          x \notin DOMAIN policy.allowed \/ Diagnosed(subject)[x] > policy.allowed[x]}}
  \cup IF policy.records # Unset /\ policy.records # Cardinality(subject.raws)
       THEN {<<"raw", "records">>} ELSE {}
  \cup IF TurnErrors THEN {<<Cursor, "turns">>} ELSE {}

-----------------------------------------------------------------------------
\* validate_project: the manifest, each store, the raw records, the policy.
OpenSnapshot ==
  /\ check = "idle"
  /\ IF subject.readable THEN check' = "header" /\ UNCHANGED verdict
                         ELSE check' = "done" /\ verdict' = "rejected"
  /\ UNCHANGED <<subject, policy, setting, damage, errors, limits>>

ValidateManifest ==
  /\ check = "header" /\ check' = "stores"
  /\ errors' = IF subject.decoder = policy.decoder THEN {} ELSE {<<"manifest", "decoder_version">>}
  /\ UNCHANGED <<subject, policy, setting, damage, limits, verdict>>

ValidateStores ==
  /\ check = "stores" /\ check' = "raw"
  /\ errors' = errors \cup UNION {StoreErrors(s) : s \in subject.stores}
  /\ UNCHANGED <<subject, policy, setting, damage, limits, verdict>>

ValidateRaw ==
  /\ check = "raw" /\ check' = "policy"
  /\ errors' = errors \cup {<<"raw", r.availability>> : r \in {x \in subject.raws : RawErrors(x)}}
  /\ limits' = {r \in subject.raws : RawLimited(r)}
  /\ UNCHANGED <<subject, policy, setting, damage, verdict>>

ValidatePolicy ==
  /\ check = "policy" /\ check' = "done"
  /\ errors' = errors \cup PolicyErrors
  /\ verdict' = IF errors' # {} THEN "rejected"
                ELSE IF limits # {} THEN "accepted_with_limitations" ELSE "accepted"
  /\ UNCHANGED <<subject, policy, setting, damage, limits>>

-----------------------------------------------------------------------------
\* A row is inserted in the table of one of two rebuilds.
InsertRow(row) ==
  \/ Len(left) < MaxRows /\ left' = Append(left, row) /\ UNCHANGED right
  \/ Len(right) < MaxRows /\ right' = Append(right, row) /\ UNCHANGED left

\* The order in which rows are hashed: of the statement's columns, and then,
\* which none of them need say, of insertion.
InOrder(table) ==
  LET place(i) == 1 + Cardinality({j \in DOMAIN table :
        table[j].key < table[i].key \/ (table[j].key = table[i].key /\ j < i)})
  IN  [k \in DOMAIN table |-> table[CHOOSE i \in DOMAIN table : place(i) = k]]

\* What is hashed of each row; the normalized digest leaves observations out.
Hashed(table, normalized) ==
  [k \in DOMAIN table |->
     <<InOrder(table)[k].key, InOrder(table)[k].value,
       IF normalized THEN Unset ELSE InOrder(table)[k].observation>>]

ValidationNext ==
  \/ GoWrong \/ OpenSnapshot \/ ValidateManifest \/ ValidateStores
  \/ ValidateRaw \/ ValidatePolicy

ValidationSpec == ValidationInit /\ [][ValidationNext]_validationVars

DigestNext == \E row \in Logical : InsertRow(row)

DigestSpec == DigestInit /\ [][DigestNext]_digestVars

-----------------------------------------------------------------------------
\* A snapshot is rejected exactly if something is wrong with it: a Session's
\* Events are not numbered from one on, an identity is used twice, an artifact
\* stands alone or twice, the manifest counts otherwise, evidence that was
\* looked at is not what the record says, or the policy asks for more.  One
\* accepted without limitation can be decoded again from evidence that was read
\* (validate_project).
Sound ==
  /\ subject.readable /\ subject.decoder = policy.decoder
  /\ subject.format = subject.stores
  /\ \A i \in subject.sessions :
       LET E == EventsOf(i[1], i[2]) IN {e.seq : e \in E} = 1..Cardinality(E)
  /\ \A e, f \in subject.events : e # f /\ e.store = f.store => e.entity # f.entity
  /\ \A s \in subject.stores : subject.counts[s] = Cardinality(EventsIn(s))
  /\ \A a \in subject.artifacts :
       /\ a.row \in subject.links
       /\ \A b \in subject.artifacts : b.store = a.store /\ b # a =>
            (a.path = Unset \/ a.path # b.path) /\ (a.uri = Unset \/ a.uri # b.uri)
  /\ ~ \E r \in subject.raws : RawErrors(r)
  /\ PolicyErrors = {}

VerdictIsTheSnapshots ==
  /\ verdict = "rejected" => ~Sound
  /\ verdict \in {"accepted", "accepted_with_limitations"} => Sound
  /\ verdict = "accepted" =>
       \A r \in subject.raws : r.availability = "captured" /\ r.object = "intact"

\* The digests of two rebuilds agree only if their rows do, and agree whatever
\* the order of insertion if no two rows share the columns they are ordered by;
\* the normalized one tells rows apart as far as no observation does
\* (canonical_rows, semantic_digest).
Bare(row) == [row EXCEPT !.observation = Unset]
Times(table, row) == Cardinality({k \in DOMAIN table : table[k] = row})
SameRows(a, b) ==
  Len(a) = Len(b) /\ \A row \in ToSet(a) \cup ToSet(b) : Times(a, row) = Times(b, row)
Ordered(table) == \A j, k \in DOMAIN table : table[j].key = table[k].key => j = k

DigestIsOfTheRows ==
  LET bare(table) == [k \in DOMAIN table |-> Bare(table[k])]
  IN  /\ Hashed(left, FALSE) = Hashed(right, FALSE) => SameRows(left, right)
      /\ Hashed(left, TRUE) = Hashed(right, TRUE) => SameRows(bare(left), bare(right))
      /\ Ordered(left) /\ SameRows(left, right) => Hashed(left, FALSE) = Hashed(right, FALSE)
      /\ Ordered(left) /\ SameRows(bare(left), bare(right)) =>
           Hashed(left, TRUE) = Hashed(right, TRUE)
=============================================================================
