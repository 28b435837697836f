---------------------------- MODULE EditorContent -----------------------------
(***************************************************************************)
(* Editing privileges in a text editor: the text made of the rows, what the   *)
(* text the user saves is taken to mean, and the loop that shows errors in     *)
(* the text (core/database_privileges/editor.rs and                          *)
(* edit_privileges_with_editor in client/commands/edit_privs.rs).            *)
(*                                                                         *)
(* A line is known by what it is taken for.  The first two fields of a line   *)
(* name a (database, user) pair.                                            *)
(***************************************************************************)
EXTENDS PrivilegeDiff, Naturals, Sequences, FiniteSets, SequencesExt

CONSTANTS
    Pairs,       \* the pairs that lines may name
    MaxLines,    \* bound on the lines of the text
    MaxEdits     \* bound on the lines the user changes

ASSUME EditorAssumption ==
    IsFiniteSet(Pairs) /\ MaxLines \in Nat /\ MaxEdits \in Nat

VARIABLES
    stage,      \* "editor", "check", "errors" or "done"
    fetched,    \* privilege_data: the row of each pair
    text,       \* editor_content, as the user has changed it
    edits,      \* lines changed so far
    saved,      \* cleaned_content
    rows,       \* the rows taken from it
    errors,     \* the lines in error, and what about
    refused     \* history: the pairs with an ownership or existence error

editorVars == <<stage, fetched, text, edits, saved, rows, errors, refused>>

-----------------------------------------------------------------------------
(* PrivilegeRowParseResult.  A broken line has the wrong number of fields, or   *)
(* something else than Y and N, but still names its pair; garbage does not.     *)
RowLine(k, r) == [kind |-> "row", pair |-> k, row |-> r]
Broken(k)     == [kind |-> "broken", pair |-> k]
Garbage       == [kind |-> "garbage"]
Header        == [kind |-> "header"]
Comment       == [kind |-> "comment"]      \* or an empty line

(* ERROR_MARKER_PREFIX and ERROR_CONTINUATION_PREFIX: comments, too. *)
Marker   == [kind |-> "marker"]
Indented == [kind |-> "indented"]

UserLines ==
    {RowLine(k, r) : k \in Pairs, r \in Row} \cup {Broken(k) : k \in Pairs}
    \cup {Garbage, Comment, Indented}

NamesPair(l, k) == l.kind \in {"row", "broken"} /\ l.pair = k

(* generate_editor_content_from_privilege_data *)
Generate(data) ==
    LET present == SetToSeq({k \in Pairs : data[k] # NoRow})
    IN  <<Comment, Header>> \o
        IF present = <<>> THEN <<Comment>>
        ELSE [i \in DOMAIN present |-> RowLine(present[i], data[present[i]])]

(* find_duplicate_privilege_lines: of equal lines for a pair the first is kept, *)
(* of conflicting ones none, and all but the first are errors.                 *)
Parsed(t)       == {i \in DOMAIN t : t[i].kind = "row"}
Occurrences(t, i) == {j \in Parsed(t) : t[j].pair = t[i].pair}
AllEqual(t, i)  == \A j \in Occurrences(t, i) : t[j].row = t[i].row
IsLater(t, i)   == \E j \in Occurrences(t, i) : j < i

Dropped(t)         == {i \in Parsed(t) : IsLater(t, i) \/ ~AllEqual(t, i)}
DuplicateErrors(t) == {i \in Parsed(t) : IsLater(t, i) /\ ~AllEqual(t, i)}

(* parse_privilege_data_from_editor_content *)
ParseRows(t)   == {[pair |-> t[i].pair, row |-> t[i].row] : i \in Parsed(t) \ Dropped(t)}
ParseErrors(t) ==
    {[line |-> i, about |-> "text"] :
        i \in {j \in DOMAIN t : t[j].kind \in {"broken", "garbage"}} \cup DuplicateErrors(t)}

(* map_privilege_lines_by_target *)
LinesByTarget(t, k) == {i \in DOMAIN t : NamesPair(t[i], k)}

(* diff_privileges: a diff for each row of the list, which may hold a pair more *)
(* than once, and for each row that is gone.                                  *)
DiffsFor(k, to) ==
    LET rs == {x.row : x \in {y \in to : y.pair = k}}
    IN  {DiffPair(fetched[k], r) : r \in IF rs = {} THEN {NoRow} ELSE rs} \ {Noop}

(* inline_errors_into_editor_content.  The messages for a line are put one      *)
(* after the other; those about names have more than one line.                 *)
Inline(t, errs) ==
    LET About(i)   == {e.about : e \in {x \in errs : x.line = i}}
        Message(i) == (IF "text" \in About(i) THEN 1 ELSE 0) + (IF "names" \in About(i) THEN 2 ELSE 0)
    IN  FlattenSeq([i \in DOMAIN t |->
            <<t[i]>> \o [j \in 1..Message(i) |-> IF j = 1 THEN Marker ELSE Indented]])

(* Mutant: the block of an error ends at the next line with a row only. *)
StripToRow(t) ==
    LET InBlock(i) == \E j \in 1..i : t[j] = Marker /\ \A m \in j + 1 .. i : t[m].kind # "row"
    IN  FlattenSeq([i \in DOMAIN t |-> IF InBlock(i) THEN <<>> ELSE <<t[i]>>])

(* strip_inlined_errors *)
Strip(t) ==
    LET InBlock(i) == \E j \in 1..i : t[j] = Marker /\ \A m \in j + 1 .. i : t[m] = Indented
    IN  FlattenSeq([i \in DOMAIN t |-> IF InBlock(i) THEN <<>> ELSE <<t[i]>>])

-----------------------------------------------------------------------------
EditorInit ==
    /\ fetched \in [Pairs -> MaybeRow]
    /\ stage = "editor" /\ text = Generate(fetched) /\ edits = 0
    /\ saved = <<>> /\ rows = {} /\ errors = {} /\ refused = {}

(* The user changes, adds or removes a line. *)
ChangeLine ==
    /\ stage = "editor"
    /\ edits < MaxEdits
    /\ edits' = edits + 1
    /\ \/ \E i \in DOMAIN text, l \in UserLines : text' = [text EXCEPT ![i] = l]
       \/ \E i \in 1..Len(text) + 1, l \in UserLines :
              Len(text) < MaxLines /\ text' = InsertAt(text, i, l)
       \/ \E i \in DOMAIN text : text' = RemoveAt(text, i)
    /\ UNCHANGED <<stage, fetched, saved, rows, errors, refused>>

(* Editor::edit returns None: nothing was saved. *)
Abandon ==
    /\ stage = "editor"
    /\ stage' = "done"
    /\ rows' = {[pair |-> k, row |-> fetched[k]] : k \in {j \in Pairs : fetched[j] # NoRow}}
    /\ saved' = Generate(fetched) /\ errors' = {} /\ refused' = {}
    /\ text' = <<>>
    /\ UNCHANGED <<fetched, edits>>

(* ... or the text, which is stripped and parsed. *)
Save ==
    /\ stage = "editor"
    /\ saved' = Strip(text)
    /\ rows' = ParseRows(saved')
    /\ errors' = ParseErrors(saved')
    /\ stage' = "check"
    /\ text' = <<>>
    /\ UNCHANGED <<fetched, edits, refused>>

(* detect_ownership_and_existence_errors, when the server refuses the pairs bad. *)
Detect(bad) ==
    /\ stage = "check"
    /\ refused' = {k \in bad : DiffsFor(k, rows) # {}}
    /\ rows' = {x \in rows : x.pair \notin refused'}
    /\ errors' = errors \cup {[line |-> i, about |-> "names"] :
                                 i \in UNION {LinesByTarget(saved, k) : k \in refused'}}
    /\ stage' = IF errors' = {} THEN "done" ELSE "errors"
    /\ UNCHANGED <<fetched, text, edits, saved>>

(* "Do you want to go back and fix these errors?"  Yes: *)
GoBack ==
    /\ stage = "errors"
    /\ text' = Inline(saved, errors)
    /\ stage' = "editor"
    /\ saved' = <<>> /\ rows' = {} /\ errors' = {} /\ refused' = {}
    /\ UNCHANGED <<fetched, edits>>

(* Mutant: lines in error are just left out. *)
IgnoreErrorsDrops ==
    /\ stage = "errors"
    /\ stage' = "done"
    /\ UNCHANGED <<fetched, text, edits, saved, rows, errors, refused>>

(* No: the rows that the lines in error name stay what they were. *)
IgnoreErrors ==
    /\ stage = "errors"
    /\ rows' = rows \cup
           {[pair |-> k, row |-> fetched[k]] :
               k \in {j \in Pairs : fetched[j] # NoRow
                                    /\ \E e \in errors : NamesPair(saved[e.line], j)}}
    /\ stage' = "done"
    /\ UNCHANGED <<fetched, text, edits, saved, errors, refused>>

EditorNext ==
    \/ ChangeLine \/ Abandon \/ Save \/ GoBack \/ IgnoreErrors
    \/ \E bad \in SUBSET Pairs : Detect(bad)

EditorSpec == EditorInit /\ [][EditorNext]_editorVars

-----------------------------------------------------------------------------
(* The row that the saved text asks for, for the pair k: the one row its lines  *)
(* give, none if no line names it, and the row it had if its lines are broken,   *)
(* contradict each other or name what the server refuses.                       *)
Meant(k) ==
    LET given == {saved[i].row : i \in {j \in Parsed(saved) : saved[j].pair = k}}
    IN  IF LinesByTarget(saved, k) = {} THEN NoRow
        ELSE IF k \notin refused /\ \E r \in given : given = {r} THEN CHOOSE r \in given : TRUE
        ELSE fetched[k]

(* Through any rounds of editing, errors shown in the text and errors ignored,   *)
(* the diffs are the ones between the fetched rows and what the text asks for:    *)
(* at most one for each pair, nothing for a pair whose line was not touched, and  *)
(* every change on a good line, also when other lines are in error.              *)
EditorMeansItsText ==
    stage = "done" => \A k \in Pairs : DiffsFor(k, rows) = {DiffPair(fetched[k], Meant(k))} \ {Noop}

(* The lines of a text but for some. *)
Without(t, lines) ==
    FlattenSeq([i \in DOMAIN t |-> IF t[i] \in lines THEN <<>> ELSE <<t[i]>>])

(* Showing the errors in the text does not change the text: when they are        *)
(* stripped again, every line of the user's is where it was, but for comments     *)
(* that look like the continuation of an error.                                  *)
ErrorsLeaveTextAlone ==
    [][stage = "errors" /\ stage' = "editor" =>
           Without(Strip(text'), {Indented}) = Without(saved, {Indented})]_editorVars

=============================================================================
