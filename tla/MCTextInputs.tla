----------------------------- MODULE MCTextInputs -----------------------------
(* What the programs read as text, side by side: edit-privs is given entries on *)
(* its command line for one pair, or opens the editor on the rows of two        *)
(* pairs; or the server reads its denylist file.  What belongs to the other      *)
(* inputs stays as it is.                                                      *)
EXTENDS PrivilegeEntries, EditorContent, MCAuthorization

CONSTANTS sel, ins, k1, k2

EntriesUnused ==
    phase = "unused" /\ from = NoRow /\ entries = <<>> /\ diffs = {} /\ acc = Noop

EditorUnused ==
    /\ stage = "unused" /\ fetched = [k \in Pairs |-> NoRow] /\ text = <<>> /\ edits = 0
    /\ saved = <<>> /\ rows = {} /\ errors = {} /\ refused = {}

MCInit ==
    \/ Init /\ EditorUnused /\ DenylistInit
    \/ EditorInit /\ EntriesUnused /\ DenylistInit
    \/ DenylistInit /\ EntriesUnused /\ EditorUnused

MCNext ==
    \/ Next /\ UNCHANGED <<editorVars, denylistVars>>
    \/ EditorNext /\ UNCHANGED <<vars, denylistVars>>
    \/ phase = "unused" /\ stage = "unused" /\ DenylistNext /\ UNCHANGED <<vars, editorVars>>

MCSpec == MCInit /\ [][MCNext]_<<vars, editorVars, denylistVars>>
=============================================================================
