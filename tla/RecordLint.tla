----------------------------- MODULE RecordLint -----------------------------
(***************************************************************************)
(* The corpus linter (lint.py) as operators on a directory: a function     *)
(* from file stems (numbers, in the order glob sorts them) to contents.    *)
(*                                                                         *)
(* A content is its front matter - "missing", "unclosed", "malformed" YAML,*)
(* "scalar" (no mapping), "invalid" by the schema, or "valid" - whether it *)
(* has an unknown key, and the fields the checks read; salience counts     *)
(* hundredths, age is in days, links are the wikilinks of the body.        *)
(* Messages are left out of a finding; target is the id a message names.   *)
(***************************************************************************)
EXTENDS Naturals, FiniteSets

INFO == 1
WARNING == 2
ERROR == 3

Finding(severity, check, id, target) ==
  [severity |-> severity, check |-> check, id |-> id, target |-> target]

SupersededStatuses == {"superseded", "reverted"}
StaleAfterDays == 180
LowSalience == 30

-----------------------------------------------------------------------------
(* check_supersession.  loaded is a set of records with their ids; byId is *)
(* what by_id finds under an id.                                           *)

MissingSupersedes(item, byId) ==
  {t \in item.supersededBy : t \notin DOMAIN byId \/ item.id \notin byId[t].supersedes}

MissingSupersededBy(item, byId) ==
  {t \in item.supersedes : t \notin DOMAIN byId \/ item.id \notin byId[t].supersededBy}

\* Mutant of HalfLinks: only the superseded record's side is checked.
HalfLinksOfOld(loaded, byId) ==
  UNION {{Finding(ERROR, "supersession", item.id, t) : t \in MissingSupersedes(item, byId)} :
           item \in loaded}

\* The errors: a link that its target does not mirror.
HalfLinks(loaded, byId) ==
  UNION {{Finding(ERROR, "supersession", item.id, t) :
            t \in MissingSupersedes(item, byId) \cup MissingSupersededBy(item, byId)} :
           item \in loaded}

\* The warning: superseded-by is set, the status is not.
LinkedButCurrent(loaded) ==
  {Finding(WARNING, "supersession", item.id, item.id) :
     item \in {j \in loaded : j.supersededBy # {} /\ j.status \notin SupersededStatuses}}

CheckSupersession(loaded, byId) == HalfLinks(loaded, byId) \cup LinkedButCurrent(loaded)

\* The same for a corpus that is a function from ids to records.
Supersession(corpus) ==
  CheckSupersession(
    {[id |-> i, status |-> corpus[i].status, supersedes |-> corpus[i].supersedes,
      supersededBy |-> corpus[i].supersededBy] : i \in DOMAIN corpus},
    corpus)

-----------------------------------------------------------------------------
(* Reading a directory.                                                    *)

\* parse_document: a record, a ValueError - or a YAMLError, which is none.
Parse(content) ==
  CASE content.front = "valid" -> "record"
    [] content.front = "malformed" -> "YAMLError"
    [] OTHER -> "ValueError"

\* _frontmatter_map, then the keys that are no field of Record.
HasUnknownKey(content) == content.front \in {"invalid", "valid"} /\ content.unknown

\* _load_schema_valid: the stems of the files that hold a record.
Loaded(files) == {f \in DOMAIN files : Parse(files[f]) = "record"}
Records(files) == {files[f] : f \in Loaded(files)}
KnownIds(files) == {files[f].id : f \in Loaded(files)}

\* by_id: of files with one id, the last.
ById(files) ==
  [i \in KnownIds(files) |->
     files[CHOOSE f \in Loaded(files) :
             /\ files[f].id = i
             /\ \A g \in Loaded(files) : files[g].id = i => g <= f]]

-----------------------------------------------------------------------------
(* The other checks, and run_lint.                                         *)

CheckSchema(files) ==
  {Finding(ERROR, "schema", f, f) : f \in {g \in DOMAIN files : Parse(files[g]) = "ValueError"}}

CheckUnknownKeys(files) ==
  {Finding(WARNING, "unknown-key", f, f) : f \in {g \in DOMAIN files : HasUnknownKey(files[g])}}

CheckDuplicateId(files) ==
  {Finding(ERROR, "duplicate-id", i, i) :
     i \in {j \in KnownIds(files) : Cardinality({f \in Loaded(files) : files[f].id = j}) > 1}}

CheckBrokenLinks(files) ==
  UNION {{Finding(ERROR, "broken-link", r.id, t) : t \in r.links \ KnownIds(files)} :
           r \in Records(files)}

\* _gather_referenced_ids: what any record links to or is related to, itself included.
Referenced(files) ==
  UNION {r.links \cup r.supersedes \cup r.supersededBy : r \in Records(files)}

CheckOrphans(files) ==
  {Finding(INFO, "orphan", i, i) : i \in KnownIds(files) \ Referenced(files)}

\* Mutant of IsStale: a record is stale one day later.
IsStaleADayLater(r) ==
  /\ r.status \notin SupersededStatuses
  /\ r.age > StaleAfterDays /\ r.salience < LowSalience

IsStale(r) ==
  /\ r.status \notin SupersededStatuses
  /\ r.age >= StaleAfterDays /\ r.salience < LowSalience

CheckStaleness(files) ==
  {Finding(WARNING, "staleness", r.id, r.id) : r \in {s \in Records(files) : IsStale(s)}}

RunLint(files) ==
  CheckSchema(files) \cup CheckUnknownKeys(files) \cup CheckDuplicateId(files)
    \cup CheckBrokenLinks(files) \cup CheckOrphans(files)
    \cup CheckSupersession(Records(files), ById(files)) \cup CheckStaleness(files)

\* LintReport.exit_code: a finding at WARNING or above fails.
ExitCode(findings) == IF \E f \in findings : f.severity >= WARNING THEN 1 ELSE 0
=============================================================================
