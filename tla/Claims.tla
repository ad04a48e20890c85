------------------------------- MODULE Claims -------------------------------
(***************************************************************************)
(* What a candidate says of themselves (claims/engine.py): the resume and  *)
(* the LinkedIn export, relieved of labelled protected values              *)
(* (fairness/signals.py), become claims; a language model may phrase more  *)
(* of them from the resume (claims/refine.py); and duplicates are merged.  *)
(*                                                                         *)
(* A text is a sequence of words, "." and ",". A label is one word, with   *)
(* its separator. What a claim says, it says with the words of its source. *)
(***************************************************************************)
EXTENDS Integers, SequencesExt, FiniteSetsExt

CONSTANTS
    None,           \* no document, no section, no subject
    Labels,         \* words that announce a protected value: "nationality:"
    Redacted,       \* the mark left in place of a value
    Headings,       \* Headings[word]: the kind of claim under that heading
    ShortWords      \* words of fewer than three characters

Kinds == {"role", "skill", "project", "education", "achievement", "endorsement"}

-----------------------------------------------------------------------------
(* Redaction.                                                              *)

\* A label's value reaches to the end of its sentence, or of the whole text
\* where the text has no `ends`. All of it is replaced by one mark.
Redact(text, ends) ==
    LET Hidden(i) == \E k \in 1..(i - 1) :
                         text[k] \in Labels /\ \A j \in k..(i - 1) : j \notin ends
    IN  FoldLeft(LAMBDA out, i : IF ~Hidden(i) THEN Append(out, text[i])
                                 ELSE IF Hidden(i - 1) THEN out
                                 ELSE Append(out, Redacted),
                 <<>>, [i \in DOMAIN text |-> i])

RedactText(text) == Redact(text, {})

\* redact_prose: a sentence ends at a full stop with a space behind it.
RedactProse(text) ==
    Redact(text, {j \in 1..(Len(text) - 1) : text[j] = "." /\ text[j + 1] # ","})

\* scan_lines, for one line.
Sensitive(text) ==
    \E k \in 1..(Len(text) - 1) : text[k] \in Labels /\ text[k + 1] # Redacted

\* redact_document rewrites lines and never removes one.
RedactDocument(lines) == [n \in DOMAIN lines |-> RedactText(lines[n])]

\* The quote cleaned and the statement left as it was.
MutRedacted(claim) == [claim EXCEPT !.excerpt = RedactProse(@)]

\* _redacted: the statement and its quote; the subject and the locator stay.
RedactedClaim(claim) ==
    [claim EXCEPT !.text = RedactProse(@), !.excerpt = RedactProse(@)]

-----------------------------------------------------------------------------
(* The resume.                                                             *)

Claim(kind, text, subject, document, locator, excerpt) ==
    [kind |-> kind, text |-> text, subject |-> subject, document |-> document,
     locator |-> locator, excerpt |-> excerpt]

IsHeading(line) == Len(line) = 1 /\ line[1] \in DOMAIN Headings

\* The section line n stands in.
SectionAt(lines, n) ==
    LET above == {m \in 1..n : IsHeading(lines[m])}
    IN  IF above = {} THEN None ELSE Headings[lines[Max(above)][1]]

\* Those that say something.
Given(texts) ==
    FoldLeft(LAMBDA given, text : IF text = <<>> THEN given ELSE Append(given, text),
             <<>>, texts)

\* The parts between the commas.
Parts(text) ==
    FoldLeft(LAMBDA parts, word :
                 IF word = "," THEN Append(parts, <<>>)
                 ELSE [parts EXCEPT ![Len(parts)] = Append(@, word)],
             <<<<>>>>, text)

SplitSkills(text) == Given(Parts(text))

TooShort(statement) == statement = <<>> \/ \E word \in ShortWords : statement = <<word>>

\* "name - what it is" names a project.
ProjectName(statement) ==
    IF Len(statement) > 2 /\ statement[2] = "-" THEN <<statement[1]>> ELSE None

\* One claim per statement, each pointing at the line it came from.
LineClaims(document, lines, n) ==
    LET kind == SectionAt(lines, n)
        Said(text, subject) == Claim(kind, text, subject, document, <<"line", n>>, lines[n])
        skills == SplitSkills(lines[n])
    IN  CASE IsHeading(lines[n]) \/ kind = None \/ TooShort(lines[n]) -> <<>>
          [] OTHER ->
             IF kind = "skill" THEN [i \in DOMAIN skills |-> Said(skills[i], skills[i])]
             ELSE <<Said(lines[n], IF kind = "project" THEN ProjectName(lines[n]) ELSE None)>>

ParseResume(document, lines) ==
    FlattenSeq([n \in DOMAIN lines |-> LineClaims(document, lines, n)])

-----------------------------------------------------------------------------
(* The language model.                                                     *)

\* What the model returns for one of its claims: it quotes line `of` of what it
\* was sent, or something that is not there, and says it without the first
\* `leaving` words.
Answered(lines, item) ==
    LET quote == IF item.of \in DOMAIN lines THEN lines[item.of] ELSE <<"invented">>
    IN  [kind |-> item.kind, subject |-> item.subject, excerpt |-> quote,
         text |-> SubSeq(quote, item.leaving + 1, Len(quote))]

\* _ground: accepted only with a quote that is a line of the document, whose
\* first such line it is given.
Ground(document, lines, said) ==
    LET at == {n \in DOMAIN lines : lines[n] = said.excerpt}
    IN  IF said.excerpt = <<>> \/ said.text = <<>> \/ at = {} \/ said.kind \notin Kinds
        THEN None
        ELSE Claim(said.kind, said.text, said.subject, document,
                   <<"line", Min(at)>>, said.excerpt)

\* Only what the parser covered is taken: the model may restate itself.
MutTaken(claim, existing, found) ==
    \E i \in DOMAIN existing :
        existing[i].kind = claim.kind /\
        (existing[i].locator = claim.locator \/ existing[i].text = claim.text)

\* The same words, or another phrasing of a line already covered for this kind.
Taken(claim, existing, found) ==
    LET earlier == existing \o found
    IN  \E i \in DOMAIN earlier :
            earlier[i].kind = claim.kind /\
            (earlier[i].locator = claim.locator \/ earlier[i].text = claim.text)

Refine(document, lines, existing, items) ==
    FoldLeft(LAMBDA found, item :
                 LET claim == Ground(document, lines, Answered(lines, item))
                 IN  IF claim = None THEN found
                     ELSE IF Taken(claim, existing, found) THEN found
                     ELSE Append(found, claim),
             <<>>, items)

-----------------------------------------------------------------------------
(* The LinkedIn export.                                                    *)

OrElse(text, otherwise) == IF text = <<>> THEN otherwise ELSE text

\* The values of a row, without the names of their columns.
Joined(row) ==
    LET values == Given(<<row.company, row.title, row.description, row.dates>>)
        joined == FlattenSeq([i \in DOMAIN values |-> <<",">> \o values[i]])
    IN  SubSeq(joined, 2, Len(joined))

\* In a file of skills the title of a row is the skill's name.
RowClaims(export, i) ==
    LET row == export.rows[i]
        Said(text, subject) ==
            Claim(export.kind, text, subject, export.document, <<"row", i>>, Joined(row))
        subject == OrElse(row.company, row.title)
    IN  CASE row.company \o row.title \o row.description \o row.dates = <<>> -> <<>>
          [] OTHER ->
             IF export.kind = "skill"
             THEN IF row.title = <<>> THEN <<>> ELSE <<Said(row.title, row.title)>>
             ELSE <<Said(OrElse(row.title \o row.company, Joined(row)) \o row.description,
                         IF subject = <<>> THEN None ELSE subject)>>

ClaimsFromCsv(export) == FlattenSeq([i \in DOMAIN export.rows |-> RowClaims(export, i)])

\* Positions, then skills, then endorsements; each quotes itself.
ClaimsFromJson(export) ==
    LET Said(kind, text, subject, locator) ==
            Claim(kind, text, subject, export.document, locator, text)
        position(i) ==
            LET row == export.positions[i]
                text == row.title \o row.company \o row.description
            IN  IF text = <<>> THEN <<>>
                ELSE <<Said("role", text, IF row.company = <<>> THEN None ELSE row.company,
                            <<"positions", i>>)>>
        skill(name) == Said("skill", name, name, <<"skills", name>>)
        endorsed(name) ==
            Said("endorsement", name \o <<"endorsed">>, name, <<"endorsements", name>>)
        skills == Given(export.skills)
        endorsements == Given(export.endorsements)
    IN  FlattenSeq([i \in DOMAIN export.positions |-> position(i)])
        \o [i \in DOMAIN skills |-> skill(skills[i])]
        \o [i \in DOMAIN endorsements |-> endorsed(endorsements[i])]

LoadLinkedInExport(export) ==
    IF export.form = "csv" THEN ClaimsFromCsv(export) ELSE ClaimsFromJson(export)

-----------------------------------------------------------------------------
(* Both together.                                                          *)

\* What makes two claims one: the kind, and the subject or else the text.
Key(claim) == <<claim.kind, IF claim.subject = None THEN claim.text ELSE claim.subject>>

Same(a, b) ==
    \/ Key(a) = Key(b)
    \/ a.document = b.document /\ a.locator = b.locator /\ a.text = b.text

\* The last claim of each key survives.
MutDedupe(claims) ==
    FoldRight(LAMBDA claim, kept :
                  IF \E i \in DOMAIN kept : Same(kept[i], claim) THEN kept
                  ELSE <<claim>> \o kept,
              claims, <<>>)

\* _dedupe: the first claim of each key survives, and a sentence said under two
\* kinds is one statement.
Dedupe(claims) ==
    FoldLeft(LAMBDA kept, claim :
                 IF \E i \in DOMAIN kept : Same(kept[i], claim) THEN kept
                 ELSE Append(kept, claim),
             <<>>, claims)

\* collect_claims. `reading` says how it went:
\*   resume, linkedin   whether the document could be read;
\*   model              "absent"; or it "answered" `items`, none if the request
\*                      failed, was refused or cut short; or it answered with
\*                      something of another shape ("garbled"), which raises.
\* `sent` is what the model was shown.
CollectClaims(resume, linkedin, reading) ==
    LET opened == resume # None /\ reading.resume
        exported == linkedin # None /\ reading.linkedin
        asked == opened /\ reading.model # "absent"
        garbled == asked /\ reading.model = "garbled"
        lines == IF opened THEN RedactDocument(resume.lines) ELSE <<>>
        structural == IF opened THEN ParseResume(resume.document, lines) ELSE <<>>
        extra == IF asked /\ reading.model = "answered"
                 THEN Refine(resume.document, lines, structural, reading.items) ELSE <<>>
        entries == IF exported THEN LoadLinkedInExport(linkedin) ELSE <<>>
        cleaned == [i \in DOMAIN entries |-> RedactedClaim(entries[i])]
    IN  [claims     |-> Dedupe(structural \o extra \o cleaned),
         errors     |-> {d \in {"resume"} : resume # None /\ (~opened \/ garbled)}
                        \cup {d \in {"linkedin"} : linkedin # None /\ ~exported},
         refined    |-> asked /\ ~garbled,
         redactions |-> {d \in {"resume"} : opened /\ \E n \in DOMAIN lines :
                                                          Sensitive(resume.lines[n])}
                        \cup {d \in {"linkedin"} : \E i \in DOMAIN entries :
                                  Sensitive(entries[i].text \o entries[i].excerpt)},
         sent       |-> IF asked THEN lines ELSE <<>>]

=============================================================================
