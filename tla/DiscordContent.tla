---------------------------- MODULE DiscordContent ----------------------------
(***************************************************************************)
(* The payloads of packages/shared/src/publication-discord-content.ts, by  *)
(* the lengths of their parts in code points: Discord refuses a message    *)
(* with a part, or an embed, that is too long.  A part of length 0 is      *)
(* absent.                                                                 *)
(*                                                                         *)
(* A field counts with its name.  The texts of an input are as sanitizing  *)
(* left them; list is the length of the lines of the sources shown (at     *)
(* most five), url that of the first accepted link.                        *)
(***************************************************************************)
EXTENDS Integers

\* DISCORD_LIMITS
MESSAGE_CONTENT   == 2000
EMBED_TITLE       == 256
EMBED_DESCRIPTION == 4096
EMBED_FIELD_VALUE == 1024
EMBED_FOOTER      == 2048
EMBED_TOTAL       == 6000
THREAD_NAME       == 100

\* The lengths of the constant texts.
Category == 9          \* "Catégorie"
Pertinence == 10       \* "Pertinence"
Sources == 7           \* "Sources"
Date == 4              \* "Date"
NewSources == 17       \* "Nouvelles sources"
UsefulDate == 10       \* YYYY-MM-DD; "unknown" is shorter
Dash == 3              \* " — "
FallbackTitle == 9     \* "Veille IA"
FallbackSummary == 20  \* "Résumé indisponible."
FallbackFacts == 18    \* "Nouvelles sources."
Enrichment == 14       \* "Enrichissement"
FolderUpdate == 22     \* "Mise à jour du dossier"
ThreadPrefix == 9      \* "Veille — "

\* The number of code points truncateDiscordText leaves, its ellipsis included.
TruncateDiscordText(n, max) == IF max <= 0 THEN 0 ELSE IF n <= max THEN n ELSE max

\* A field without a value is not pushed.  (A message has fewer fields than 25.)
PushField(name, value) ==
    IF value = 0 THEN 0 ELSE name + TruncateDiscordText(value, EMBED_FIELD_VALUE)

EmbedCharacterCount(e) ==
    e.title + e.description + e.category + e.pertinence + e.sources + e.date + e.footer

-----------------------------------------------------------------------------
(* enforceEmbedTotal, one function per part that may give way.             *)

TooLong(e) == EmbedCharacterCount(e) > EMBED_TOTAL

\* What the total leaves to part f.
Budget(e, f) == EMBED_TOTAL - (EmbedCharacterCount(e) - e[f])

Shrink(e, f) ==
    IF TooLong(e) THEN [e EXCEPT ![f] = TruncateDiscordText(@, Budget(e, f))] ELSE e

PopField(e, f) == IF TooLong(e) THEN [e EXCEPT ![f] = 0] ELSE e

\* Fields are dropped from the end.
DropFields(e) == PopField(PopField(PopField(PopField(e, "date"), "sources"), "pertinence"), "category")

\* Mutant of EnforceEmbedTotal: fields are dropped before the description is cut.
EnforceEmbedTotalFieldsFirst(e) ==
    Shrink(Shrink(Shrink(DropFields(e), "description"), "title"), "footer")

EnforceEmbedTotal(e) ==
    Shrink(Shrink(DropFields(Shrink(e, "description")), "title"), "footer")

-----------------------------------------------------------------------------
\* dossier: and at most 8 characters of the id of the folder.
FolderFooterSuffix(id) == 8 + TruncateDiscordText(id, 8)

BuildThreadName(title) ==
    TruncateDiscordText(ThreadPrefix + (IF title > 0 THEN title ELSE FallbackTitle), THREAD_NAME)

\* The summary stands for a missing title.
TitleOf(i) == CASE i.title > 0   -> i.title
                [] i.summary > 0 -> i.summary
                [] OTHER         -> FallbackTitle

SummaryOf(i) == IF i.summary > 0 THEN i.summary ELSE FallbackSummary

WithUrl(n, url) == IF url > 0 THEN n + Dash + url ELSE n

\* The embed of a main publication before its total is enforced.
MainEmbed(i) ==
    [title       |-> TruncateDiscordText(TitleOf(i), EMBED_TITLE),
     description |-> TruncateDiscordText(SummaryOf(i), EMBED_DESCRIPTION),
     category    |-> PushField(Category, i.category),
     pertinence  |-> PushField(Pertinence, i.pertinence),
     sources     |-> PushField(Sources, TruncateDiscordText(i.list, EMBED_FIELD_VALUE)),
     date        |-> PushField(Date, UsefulDate),
     footer      |-> TruncateDiscordText(FolderFooterSuffix(i.id), EMBED_FOOTER)]

BuildMainPublicationContent(i) ==
    LET e == MainEmbed(i)
    IN  [content |-> TruncateDiscordText(WithUrl(e.title, i.url), MESSAGE_CONTENT),
         embed   |-> EnforceEmbedTotal(e),
         thread  |-> BuildThreadName(i.title)]

\* facts: the length of the lines of the new facts; fingerprint: that of the
\* fingerprint of the enrichment, 0 where there is none.
EnrichmentEmbed(i) ==
    [title       |-> Enrichment,
     description |-> TruncateDiscordText(IF i.facts > 0 THEN i.facts ELSE FallbackFacts,
                                         EMBED_DESCRIPTION),
     category    |-> 0,
     pertinence  |-> 0,
     sources     |-> PushField(NewSources, TruncateDiscordText(i.list, EMBED_FIELD_VALUE)),
     date        |-> 0,
     footer      |-> TruncateDiscordText(
                         FolderFooterSuffix(i.id)
                             + (IF i.fingerprint > 0
                                THEN 3 + TruncateDiscordText(i.fingerprint, 8) ELSE 0),
                         EMBED_FOOTER)]

\* An enrichment without a new fact or source is refused.
Refused(i) == i.facts = 0 /\ i.list = 0

BuildEnrichmentPublicationContent(i) ==
    [content |-> TruncateDiscordText(WithUrl(FolderUpdate, i.url), MESSAGE_CONTENT),
     embed   |-> EnforceEmbedTotal(EnrichmentEmbed(i))]

-----------------------------------------------------------------------------
\* A link is that of a source, and some sources are shown where there are any.
Linked(i) == i.url > 0 => i.list > 0

MainInput == {i \in [title : Nat, summary : Nat, category : Nat, pertinence : Nat, list : Nat,
                     url : Nat, id : Nat] : Linked(i)}
EnrichmentInput == {i \in [facts : Nat, list : Nat, url : Nat, id : Nat, fingerprint : Nat] :
                        Linked(i)}

EmbedFits(e) ==
    /\ e.title <= EMBED_TITLE /\ e.description <= EMBED_DESCRIPTION
    /\ e.category <= Category + EMBED_FIELD_VALUE
    /\ e.pertinence <= Pertinence + EMBED_FIELD_VALUE
    /\ e.sources <= NewSources + EMBED_FIELD_VALUE
    /\ e.footer <= EMBED_FOOTER
    /\ ~TooLong(e)

(***************************************************************************)
(* Discord takes a main publication, whatever the texts, links and sources *)
(* of the folder: every part and the embed as a whole are within the       *)
(* limits, the message is not empty, and the thread has a name.            *)
(***************************************************************************)
MainFits(i) ==
    LET p == BuildMainPublicationContent(i)
    IN  /\ p.content \in 1 .. MESSAGE_CONTENT
        /\ p.thread \in 1 .. THREAD_NAME
        /\ EmbedFits(p.embed)

(***************************************************************************)
(* The summary of a main publication gives way to the rest, and never      *)
(* altogether: its title, its category, its score, its sources, its date   *)
(* and its footer are as they were before the total was enforced.          *)
(***************************************************************************)
SummaryGivesWay(i) ==
    LET e == MainEmbed(i)
        p == BuildMainPublicationContent(i).embed
    IN  p.description > 0 /\ p = [e EXCEPT !.description = p.description]

(***************************************************************************)
(* Discord takes an enrichment that is not refused, whose embed is never   *)
(* cut: it loses facts only to the limit of a description.                 *)
(***************************************************************************)
EnrichmentFits(i) ==
    LET p == BuildEnrichmentPublicationContent(i)
    IN  ~Refused(i) =>
        /\ p.content \in 1 .. MESSAGE_CONTENT
        /\ EmbedFits(p.embed)
        /\ p.embed = EnrichmentEmbed(i)
===============================================================================
