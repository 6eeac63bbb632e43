------------------------------ MODULE PgnImport ------------------------------
(***************************************************************************)
(* Games brought in from a PGN: the dialog's form, whose text is a file's  *)
(* or the person's, and the requests that store it in batches which commit *)
(* one by one.  A request that fails keeps what its batches stored; nothing*)
(* stops the same text from being sent again, while the first is still     *)
(* being stored too.                                                       *)
(*                                                                         *)
(* Abstractions.  A text is the sequence of the games read from it; the    *)
(* chunks that cannot be read are left out with the count of them.  Which  *)
(* side was played is answered or not.  A game is what the unique          *)
(* constraint tells apart: one movetext of one user without an account.    *)
(* The count of an import's inserted games is the set of those it counts.  *)
(***************************************************************************)
EXTENDS Integers, Sequences, SequencesExt, FiniteSetsExt

CONSTANTS
  Files,       \* the files that may be picked
  Pasted,      \* the texts that may be pasted
  Content,     \* of each of them, the games read from it
  Blank,       \* no text, and no file
  BatchSize,   \* games stored by one statement
  MaxImports   \* bound: requests sent

VARIABLES
  open,      \* the dialog is open, its form mounted
  text,      \* the form's text
  file,      \* the file it names
  reading,   \* the files being read for this form
  side,      \* how they were played is answered
  imports,   \* the requests, in the order they were sent
  pending,   \* the request this form waits for; 0 is none
  library    \* the games stored

formVars == <<open, text, file, reading, side, pending>>
vars == <<formVars, imports, library>>

-----------------------------------------------------------------------------
Texts  == Files \cup Pasted
Games  == UNION {ToSet(Content[t]) : t \in Texts}
Slots  == 1..MaxImports
Imports == [pc : {"unsent", "saving", "saved", "failed"},
            heard : {"waiting", "receipt", "failure"},
            of : Texts \cup {Blank}, start : Nat, inserted : SUBSET Games]
Unsent == [pc |-> "unsent", heard |-> "waiting", of |-> Blank, start |-> 0, inserted |-> {}]

TypeOK ==
  /\ open \in BOOLEAN /\ side \in BOOLEAN
  /\ text \in Texts \cup {Blank} /\ file \in Files \cup {Blank}
  /\ reading \subseteq Files
  /\ imports \in [Slots -> Imports]
  /\ pending \in 0..MaxImports
  /\ library \subseteq Games

Init ==
  /\ open = FALSE /\ text = Blank /\ file = Blank /\ reading = {}
  /\ side = FALSE /\ pending = 0
  /\ imports = [i \in Slots |-> Unsent]
  /\ library = {}

-----------------------------------------------------------------------------
\* The form.  A dialog that closes unmounts it: a file still being read for
\* it is read for nothing, and the request goes on without it.
Fresh ==
  /\ text' = Blank /\ file' = Blank /\ reading' = {}
  /\ side' = FALSE /\ pending' = 0

Open ==
  /\ ~open
  /\ open' = TRUE /\ Fresh
  /\ UNCHANGED <<imports, library>>

\* "Cancel" is disabled during an import; the Escape key is not.
Close ==
  /\ open
  /\ open' = FALSE /\ Fresh
  /\ UNCHANGED <<imports, library>>

Enabled == open /\ pending = 0

Pick(f) ==
  /\ Enabled
  /\ reading' = reading \cup {f}
  /\ UNCHANGED <<open, text, file, side, pending, imports, library>>

\* Whatever the form holds by then, a submitted one too, gives way.
Read(f) ==
  /\ f \in reading
  /\ reading' = reading \ {f}
  /\ \/ text' = f /\ file' = f
     \/ UNCHANGED <<text, file>>
  /\ UNCHANGED <<open, side, pending, imports, library>>

Edit(t, f) ==
  /\ text' = t /\ file' = f
  /\ UNCHANGED <<open, reading, side, pending, imports, library>>

RemoveFile == Enabled /\ file # Blank /\ Edit(Blank, Blank)
Paste(t)   == Enabled /\ text # t /\ Edit(t, Blank)

\* The sides toggle: pressing the one chosen takes the answer back.
Answer ==
  /\ Enabled
  /\ side' = ~side
  /\ UNCHANGED <<open, text, file, reading, pending, imports, library>>

CanSubmit == text # Blank /\ Len(Content[text]) > 0 /\ side

Submit ==
  \E i \in Slots :
    /\ Enabled /\ CanSubmit
    /\ imports[i] = Unsent /\ \A j \in Slots : j < i => imports[j] # Unsent
    /\ imports' = [imports EXCEPT ![i] = [Unsent EXCEPT !.pc = "saving", !.of = text]]
    /\ pending' = i
    /\ UNCHANGED <<open, text, file, reading, side, library>>

-----------------------------------------------------------------------------
\* The handler: one statement per batch.
Rows(i) == Content[imports[i].of]
Batch(i) ==
  ToSet(SubSeq(Rows(i), imports[i].start + 1,
               Min({imports[i].start + BatchSize, Len(Rows(i))})))

\* Fault: what a batch asked for counts, whatever the constraint let through.
InsertedOfBatch(games) == games

\* What the conflict clause lets through is what is returned.
Inserted(games) == games \ library

SaveBatch(i) ==
  /\ imports[i].pc = "saving" /\ imports[i].start < Len(Rows(i))
  /\ library' = library \cup Batch(i)
  /\ imports' = [imports EXCEPT ![i].start = @ + BatchSize,
                                ![i].inserted = @ \cup Inserted(Batch(i))]
  /\ UNCHANGED formVars

Saved(i) ==
  /\ imports[i].pc = "saving" /\ imports[i].start >= Len(Rows(i))
  /\ imports' = [imports EXCEPT ![i].pc = "saved"]
  /\ UNCHANGED <<formVars, library>>

\* A statement fails, or the process stops.
Fail(i) ==
  /\ imports[i].pc = "saving"
  /\ imports' = [imports EXCEPT ![i].pc = "failed"]
  /\ UNCHANGED <<formVars, library>>

\* The receipt closes the dialog that is open, of whichever form.
HearReceipt(i) ==
  /\ imports[i].pc = "saved" /\ imports[i].heard = "waiting"
  /\ imports' = [imports EXCEPT ![i].heard = "receipt"]
  /\ open' = FALSE /\ Fresh
  /\ UNCHANGED library

\* A failure, or no answer at all: the server may be storing still.
HearFailure(i) ==
  /\ imports[i].pc # "unsent" /\ imports[i].heard = "waiting"
  /\ imports' = [imports EXCEPT ![i].heard = "failure"]
  /\ pending' = IF pending = i THEN 0 ELSE pending
  /\ UNCHANGED <<open, text, file, reading, side, library>>

\* Nothing more may be sent, and the dialog stays shut.
Over ==
  /\ \A i \in Slots : imports[i].pc \in {"saved", "failed"} /\ imports[i].heard # "waiting"
  /\ UNCHANGED vars

-----------------------------------------------------------------------------
Next ==
  \/ Open \/ Close \/ RemoveFile \/ Answer \/ Submit \/ Over
  \/ \E f \in Files : Pick(f) \/ Read(f)
  \/ \E t \in Pasted : Paste(t)
  \/ \E i \in Slots : SaveBatch(i) \/ Saved(i) \/ Fail(i) \/ HearReceipt(i) \/ HearFailure(i)

Spec == Init /\ [][Next]_vars

-----------------------------------------------------------------------------
\* Whatever was sent twice, at once or after a failure halfway, no two imports
\* count the same game as theirs and every game stored is counted by one; a
\* receipt is given only when all its games are in the library (import-pgn:
\* "a re-import a no-op").
EveryRowCountedOnce ==
  /\ \A i, j \in Slots : i # j => imports[i].inserted \cap imports[j].inserted = {}
  /\ UNION {imports[i].inserted : i \in Slots} = library
  /\ \A i \in Slots : imports[i].pc = "saved" => ToSet(Rows(i)) \subseteq library
=============================================================================
