------------------------------ MODULE WikiMemory ------------------------------
(***************************************************************************)
(* What one hour leaves in memory besides its summary: the pages of the    *)
(* wiki, the entities of the graph and the relations between them.  The    *)
(* model that reads the hour may answer anything; what it says is kept     *)
(* only where the evidence of the hour bears it out.  A page is found      *)
(* again by its title, and stored by its slug, in which the titles that    *)
(* differ in their punctuation alone are the same.                         *)
(***************************************************************************)
EXTENDS Naturals, Sequences, FiniteSets, SequencesExt, FiniteSetsExt, Functions

CONSTANTS
    Names,       \* what the evidence may mention and the model may name
    Types,       \* EntityType
    SameSlug,    \* the names that slugify maps to one slug
    MaxEvidence, \* bound: snapshots and messages of an hour
    MaxEntities, \* bound: entities that the model names at once
    MaxHours     \* bound: hours that are summarised

VARIABLES
    pages,       \* wiki_pages, by slug
    entities,    \* kg_entities: entity_id, name and entity_type
    relations,   \* kg_relations: subject_id and object_id
    seen,        \* the evidence of the hours that were installed
    hours        \* how each hour ended

vars == <<pages, entities, relations, seen, hours>>

\* A snapshot or a message, by the names it mentions.
Evidence == SUBSET Names \ {{}}

\* What the model names.  That a name is related to itself would add nothing;
\* aliases, which lead to the title they go with, are left out.
Entity ==
    UNION {[name : {n}, type : Types, related : SUBSET (Names \ {n})] : n \in Names}

Init ==
    /\ pages = <<>> /\ entities = {} /\ relations = {} /\ seen = {} /\ hours = <<>>

\* slugify
Slug(name) == IF name \in SameSlug THEN "shared" ELSE name

-----------------------------------------------------------------------------
(***************************************************************************)
(* The answer of the model against the evidence.                           *)
(***************************************************************************)
\* entity_is_attributable
Attributable(name, evidence) == \E e \in evidence : name \in e

CoattributableFaulty(left, right, evidence) == Attributable(right, evidence)

\* entities_are_coattributable
Coattributable(left, right, evidence) == \E e \in evidence : {left, right} \subseteq e

\* parse_wiki_extraction
Accepted(answer, evidence) ==
    LET kept == SelectSeq(answer, LAMBDA a : Attributable(a.name, evidence))
        with(name, names) == {n \in names : Coattributable(name, n, evidence)} IN
    [i \in DOMAIN kept |-> [kept[i] EXCEPT !.related = with(kept[i].name, @)]]

Titles == {pages[s].title : s \in DOMAIN pages}

\* grounded_wiki_reference_titles and canonicalize_wiki_references: a link leads
\* to a page there is, or to one of the entities.
Canonical(names, found) == names \intersect (Titles \union {found[i].name : i \in DOMAIN found})

\* rewrite_wiki_pages: one page for each name and type; a page that is known by
\* its title keeps its type.  The rewrite may link to anything, and what the page
\* linked to before is then kept.
Writes(found) ==
    LET repeats == {j \in DOMAIN found : \E i \in 1..(j - 1) :
                       found[i].name = found[j].name /\ found[i].type = found[j].type}
        typeOf(e) == IF e.name \notin Titles THEN e.type
                     ELSE (CHOOSE p \in Range(pages) : p.title = e.name).type
        before(slug) == IF slug \in DOMAIN pages THEN pages[slug].links ELSE {}
        write(e) == [slug |-> Slug(e.name), title |-> e.name, type |-> typeOf(e),
                     links |-> Canonical(e.related, found) \union before(Slug(e.name))] IN
    FlattenSeq([i \in DOMAIN found |-> IF i \in repeats THEN <<>> ELSE <<write(found[i])>>])

-----------------------------------------------------------------------------
(***************************************************************************)
(* commit_hour_memory, one transaction.                                    *)
(***************************************************************************)
Row(w) == [id |-> w.slug, name |-> w.title, type |-> w.type]
Same(w, e) == e.name = w.title /\ e.type = w.type

InsertFaulty(graph, w) ==
    IF \E e \in graph.rows : Same(w, e) \/ e.id = w.slug THEN graph
    ELSE [graph EXCEPT !.rows = @ \union {Row(w)}]

\* INSERT INTO kg_entities: a row of the same name and type is updated, and one
\* that has only the identifier in common fails the transaction.
Insert(graph, w) ==
    IF \E e \in graph.rows : Same(w, e) THEN graph
    ELSE IF \E e \in graph.rows : e.id = w.slug THEN [graph EXCEPT !.refused = TRUE]
    ELSE [graph EXCEPT !.rows = @ \union {Row(w)}]

Upsert(ws) ==
    LET last(s) == Max({i \in DOMAIN ws : ws[i].slug = s})
        written == {ws[i].slug : i \in DOMAIN ws} IN
    [s \in DOMAIN pages \union written |-> IF s \in written THEN ws[last(s)] ELSE pages[s]]

Related(ws, es) ==
    LET ids(n) == {e.id : e \in {x \in es : x.name = n}} IN
    UNION {UNION {{<<ws[i].slug, o>> : o \in ids(n) \ {ws[i].slug}} : n \in ws[i].links}
              : i \in DOMAIN ws}

\* One hour, from the extraction on.
Hour(evidence, answer) ==
    LET ws == Writes(Accepted(answer, evidence))
        graph == FoldLeft(Insert, [rows |-> entities, refused |-> FALSE], ws) IN
    /\ Len(hours) < MaxHours
    /\ IF graph.refused
       THEN hours' = Append(hours, "refused") /\ UNCHANGED <<pages, entities, relations, seen>>
       ELSE /\ hours' = Append(hours, "installed")
            /\ pages' = Upsert(ws) /\ entities' = graph.rows
            /\ relations' = relations \union Related(ws, graph.rows)
            /\ seen' = seen \union evidence

\* A reset, or any row that expires, takes all of it.
Erase ==
    /\ seen # {}
    /\ pages' = <<>> /\ entities' = {} /\ relations' = {} /\ seen' = {}
    /\ UNCHANGED hours

Next ==
    \/ \E evidence \in UNION {kSubset(k, Evidence) : k \in 1..MaxEvidence} :
          \E answer \in UNION {[1..k -> Entity] : k \in 1..MaxEntities} :
             Hour(evidence, answer)
    \/ Erase

Spec == Init /\ [][Next]_vars

-----------------------------------------------------------------------------
TypeOK ==
    /\ \A s \in DOMAIN pages : pages[s].slug = s /\ s = Slug(pages[s].title)
    /\ \A r \in relations : {r[1], r[2]} \subseteq {e.id : e \in entities}
    /\ hours \in Seq({"installed", "refused"})

\* A page leads only to what one piece of evidence, of an hour that still counts,
\* mentions together with its subject.
GroundedLinks ==
    \A s \in DOMAIN pages : \A n \in pages[s].links :
       \E e \in seen : {pages[s].title, n} \subseteq e

\* The graph knows each page by the page's own name and type.
PageInGraph ==
    \A s \in DOMAIN pages :
       \E e \in entities : e = [id |-> s, name |-> pages[s].title, type |-> pages[s].type]

\* The hour is installed with all of what was derived from it.
EveryHourInstalled == \A i \in DOMAIN hours : hours[i] = "installed"
================================================================================
