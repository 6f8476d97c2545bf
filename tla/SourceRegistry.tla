---------------------------- MODULE SourceRegistry ----------------------------
(***************************************************************************)
(* The registry of sources: packages/collector/src/source-registry.ts.     *)
(* The entries of a file are read one after the other.  An entry that is   *)
(* not valid, or repeats the id or the URL of one that was accepted, is    *)
(* reported and skipped; in strict mode the first of them is the end.      *)
(*                                                                         *)
(* A URL is written in several forms (case of the host, default port,      *)
(* final slash) that normalizeSourceUrl makes one: an entry names a page   *)
(* and a form.  shaped: its fields have the types, patterns and lengths    *)
(* there should be, its URL is absolute, without credentials or fragment.  *)
(***************************************************************************)
EXTENDS Integers, Sequences, Functions

NormalizeSourceUrl(url) == url.page

\* html and api are prepared, and may not be enabled.
DISABLED_PROVIDERS == {"html", "api"}

ValidateSourceDefinition(raw) ==
    raw.shaped /\ ~(raw.provider \in DISABLED_PROVIDERS /\ raw.enabled)

Mode == {"resilient", "strict"}

\* sources, reports: the indices of the entries accepted and reported.
NothingRead == [sources |-> <<>>, seenIds |-> {}, seenUrls |-> {}, reports |-> <<>>,
                threw |-> FALSE]

RejectOrSkipSource(reading, n, mode) ==
    [reading EXCEPT !.reports = Append(@, n), !.threw = mode = "strict"]

Duplicate(reading, raw) ==
    raw.id \in reading.seenIds \/ NormalizeSourceUrl(raw.url) \in reading.seenUrls

AcceptSource(reading, n, raw) ==
    [reading EXCEPT !.sources = Append(@, n), !.seenIds = @ \cup {raw.id},
                    !.seenUrls = @ \cup {NormalizeSourceUrl(raw.url)}]

\* Mutant of ReadSource: a valid entry is remembered before it is compared.
ReadSourceRemembered(reading, n, raw, mode) ==
    IF ~ValidateSourceDefinition(raw) THEN RejectOrSkipSource(reading, n, mode)
    ELSE IF Duplicate(reading, raw)
         THEN RejectOrSkipSource([reading EXCEPT !.seenIds = @ \cup {raw.id},
                                                 !.seenUrls = @ \cup {NormalizeSourceUrl(raw.url)}],
                                 n, mode)
         ELSE AcceptSource(reading, n, raw)

ReadSource(reading, n, raw, mode) ==
    IF ~ValidateSourceDefinition(raw) \/ Duplicate(reading, raw)
    THEN RejectOrSkipSource(reading, n, mode)
    ELSE AcceptSource(reading, n, raw)

\* The loop of parseSourceRegistry comes to entry n.
ParseSourceRegistry(reading, n, raw, mode) ==
    IF reading.threw THEN reading ELSE ReadSource(reading, n, raw, mode)

-----------------------------------------------------------------------------
Same(a, b) == a.id = b.id \/ a.url.page = b.url.page

(***************************************************************************)
(* "One bad entry cannot reject the file" (source-registry.ts:122): the    *)
(* sources are the valid entries no accepted one before has the id or the  *)
(* URL of.  What is skipped for any reason takes neither from an entry     *)
(* after it, and every entry is either a source or reported.               *)
(***************************************************************************)
FirstValidWins(raws, reading) ==
    LET kept == Range(reading.sources)
    IN  /\ \A n \in DOMAIN raws :
              n \in kept <=> /\ ValidateSourceDefinition(raws[n])
                             /\ \A k \in kept : k < n => ~Same(raws[k], raws[n])
        /\ Range(reading.reports) = DOMAIN raws \ kept
        /\ ~reading.threw

(***************************************************************************)
(* Strict and resilient reading agree: strict reading succeeds, with the   *)
(* same sources, where resilient reading reports nothing, and otherwise    *)
(* ends at what resilient reading reports first.                           *)
(***************************************************************************)
ModesAgree(strict, resilient) ==
    IF resilient.reports = <<>> THEN strict = resilient
    ELSE strict.threw /\ strict.reports = <<Head(resilient.reports)>>
=============================================================================
