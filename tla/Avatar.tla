-------------------------------- MODULE Avatar --------------------------------
(***************************************************************************)
(* The picture of an account: the crop dialog that prepares one, the       *)
(* requests that save or remove it, and what they leave behind.  The bytes *)
(* are one object per user in the file store, the row says what is shown,  *)
(* and nothing makes the two one step: saving writes the bytes first,      *)
(* removing the row first, and the deletion of the account the bytes first.*)
(*                                                                         *)
(* Abstractions.  A picture is the pick it was cropped from.  The version  *)
(* in the picture's address and what browsers keep under it are left out,  *)
(* and so is the reread of the session after a change.                     *)
(***************************************************************************)
EXTENDS Naturals

CONSTANTS
  MaxPicks,     \* bound: files picked that the dialog opens for
  MaxCrops,     \* bound: positions settled on in one dialog
  MaxRequests   \* bound: requests sent

VARIABLES
  row,        \* what the user row says is shown
  object,     \* the pick the stored bytes are of; 0 is no object
  gone,       \* the account was deleted
  sent,       \* the requests so far
  overlapped, \* two of them were on their way at once
  source,     \* the pick in the dialog; 0 is no dialog
  picks,      \* picks so far
  latest,     \* of each pick, the newest crop asked for
  encoding,   \* the crops being encoded
  cropped,    \* the crop that would be saved
  save, remove \* the request each mutation watches; 0 is none

serverVars == <<row, object, gone>>
dialogVars == <<source, picks, latest, encoding, cropped>>
vars == <<serverVars, sent, overlapped, dialogVars, save, remove>>

-----------------------------------------------------------------------------
Picks    == 1..MaxPicks
Slots    == 1..MaxRequests
Crops    == [of : Picks, at : 1..MaxCrops]
NoCrop   == [of |-> 0, at |-> 0]
Kinds    == {"set", "remove", "delete"}
Unsent   == [pc |-> "unsent", kind |-> "set", pic |-> 0]
Running  == {"first", "second"}

TypeOK ==
  /\ row \in {"provider", "custom", "none"} /\ object \in 0..MaxPicks /\ gone \in BOOLEAN
  /\ sent \in [Slots -> [pc : Running \cup {"unsent", "done", "failed", "halfway"},
                            kind : Kinds, pic : 0..MaxPicks]]
  /\ overlapped \in BOOLEAN
  /\ source \in 0..MaxPicks /\ picks \in 0..MaxPicks
  /\ latest \in [Picks -> 0..MaxCrops]
  /\ encoding \subseteq Crops /\ cropped \in Crops \cup {NoCrop}
  /\ save \in 0..MaxRequests /\ remove \in 0..MaxRequests

Init ==
  /\ row = "provider" /\ object = 0 /\ gone = FALSE
  /\ sent = [i \in Slots |-> Unsent] /\ overlapped = FALSE
  /\ source = 0 /\ picks = 0 /\ latest = [p \in Picks |-> 0]
  /\ encoding = {} /\ cropped = NoCrop
  /\ save = 0 /\ remove = 0

Pending(m) == m # 0 /\ sent[m].pc \in Running
Succeeded(m) == m # 0 /\ sent[m].pc = "done"

-----------------------------------------------------------------------------
\* The dialog.  Its first render asks for a crop too; a file of a wrong type
\* or size is refused, and opens none.
Pick ==
  /\ source = 0 /\ ~gone /\ picks < MaxPicks
  /\ picks' = picks + 1 /\ source' = picks'
  /\ latest' = [latest EXCEPT ![picks'] = 1]
  /\ encoding' = encoding \cup {[of |-> picks', at |-> 1]}
  /\ save' = 0 /\ remove' = 0
  /\ UNCHANGED <<serverVars, sent, overlapped, cropped>>

Drag ==
  /\ source # 0 /\ latest[source] < MaxCrops
  /\ latest' = [latest EXCEPT ![source] = @ + 1]
  /\ encoding' = encoding \cup {[of |-> source, at |-> latest'[source]]}
  /\ UNCHANGED <<serverVars, sent, overlapped, source, picks, cropped, save, remove>>

\* Fault: every crop reports.
ReportedAnyway(c) == c

\* Only the newest crop of its own cropper reports, mounted or not.
Reported(c) == IF c.at = latest[c.of] THEN c ELSE cropped

\* The encoding may also fail, and nobody hears of it.
Encoded(c) ==
  /\ c \in encoding
  /\ encoding' = encoding \ {c}
  /\ cropped' \in {Reported(c), cropped}
  /\ UNCHANGED <<serverVars, sent, overlapped, source, picks, latest, save, remove>>

\* "Cancel", or the Escape key, which a save under way does not disable.
Closed == source' = 0 /\ cropped' = NoCrop
CloseDialog ==
  /\ source # 0
  /\ Closed
  /\ UNCHANGED <<serverVars, sent, overlapped, picks, latest, encoding, save, remove>>

-----------------------------------------------------------------------------
\* The requests the screen sends.
Sends(kind, pic) ==
  \E i \in Slots :
    /\ sent[i] = Unsent /\ \A j \in Slots : j < i => sent[j] # Unsent
    /\ sent' = [sent EXCEPT ![i] = [pc |-> "first", kind |-> kind, pic |-> pic]]
    /\ overlapped' = (overlapped \/ \E j \in Slots : sent[j].pc \in Running)
    /\ save' = IF kind = "set" THEN i ELSE IF kind = "remove" THEN 0 ELSE save
    /\ remove' = IF kind = "remove" THEN i ELSE remove

Submit ==
  /\ source # 0 /\ cropped # NoCrop /\ ~Pending(save) /\ ~gone
  /\ Sends("set", cropped.of)
  /\ UNCHANGED <<serverVars, dialogVars>>

RemovePicture ==
  /\ source = 0 /\ row # "none" /\ ~Pending(remove) /\ ~gone
  /\ Sends("remove", 0)
  /\ UNCHANGED <<serverVars, dialogVars>>

DeleteAccount ==
  /\ source = 0 /\ ~gone
  /\ Sends("delete", 0)
  /\ UNCHANGED <<serverVars, dialogVars>>

\* Whatever dialog is open closes when a save succeeds.
Advance(i, pc) == sent' = [sent EXCEPT ![i].pc = pc]
Answered(i) ==
  /\ Advance(i, "done")
  /\ IF sent[i].kind = "set" THEN Closed ELSE UNCHANGED <<source, cropped>>
  /\ UNCHANGED <<overlapped, picks, latest, encoding, save, remove>>
Halfway(i) ==
  /\ Advance(i, "second")
  /\ UNCHANGED <<overlapped, dialogVars, save, remove>>

\* The confirmation of a success is taken back after some seconds.
Fade ==
  /\ Succeeded(save) \/ Succeeded(remove)
  /\ save' = IF Succeeded(save) THEN 0 ELSE save
  /\ remove' = IF Succeeded(remove) THEN 0 ELSE remove
  /\ UNCHANGED <<serverVars, sent, overlapped, dialogVars>>

-----------------------------------------------------------------------------
\* The handlers: what the first step of each writes, and the second.
PutObject(pic) == object' = pic /\ UNCHANGED <<row, gone>>
RemoveObject   == object' = 0 /\ UNCHANGED <<row, gone>>
WriteRow(to)   == row' = (IF gone THEN row ELSE to) /\ UNCHANGED <<object, gone>>
DeleteUser     == gone' = TRUE /\ UNCHANGED <<row, object>>

\* Fault: the row names the picture before its bytes are there.
SetAvatarRowFirst(i) ==
  \/ sent[i].pc = "first" /\ WriteRow("custom") /\ Halfway(i)
  \/ sent[i].pc = "second" /\ PutObject(sent[i].pic) /\ Answered(i)

SetAvatar(i) ==
  \/ sent[i].pc = "first" /\ PutObject(sent[i].pic) /\ Halfway(i)
  \/ sent[i].pc = "second" /\ WriteRow("custom") /\ Answered(i)

RemoveAvatar(i) ==
  \/ sent[i].pc = "first" /\ WriteRow("none") /\ Halfway(i)
  \/ sent[i].pc = "second" /\ RemoveObject /\ Answered(i)

DeleteUserAndAvatar(i) ==
  \/ sent[i].pc = "first" /\ RemoveObject /\ Halfway(i)
  \/ sent[i].pc = "second" /\ DeleteUser /\ Answered(i)

Handle(i) ==
  \/ sent[i].kind = "set" /\ SetAvatar(i)
  \/ sent[i].kind = "remove" /\ RemoveAvatar(i)
  \/ sent[i].kind = "delete" /\ DeleteUserAndAvatar(i)

\* A step fails, the process stops, or the bytes are refused.
Fail(i) ==
  /\ sent[i].pc \in Running
  /\ Advance(i, IF sent[i].pc = "first" THEN "failed" ELSE "halfway")
  /\ UNCHANGED <<serverVars, overlapped, dialogVars, save, remove>>

\* The account is gone, or every bound is reached.
Over ==
  /\ gone \/ (picks = MaxPicks /\ source = 0)
  /\ UNCHANGED vars

-----------------------------------------------------------------------------
Next ==
  \/ Pick \/ Drag \/ CloseDialog \/ Submit \/ RemovePicture \/ DeleteAccount \/ Fade \/ Over
  \/ \E c \in Crops : Encoded(c)
  \/ \E i \in Slots : Handle(i) \/ Fail(i)

Spec == Init /\ [][Next]_vars

-----------------------------------------------------------------------------
\* Requests one after the other, whichever step of theirs fails, leave no row
\* that shows bytes nobody stored and no bytes of an account that is gone; but
\* a deletion that stopped halfway has taken the bytes (set-avatar,
\* remove-avatar, delete-account: "bytes first", "row first").
RowAndBytesAgree ==
  ~overlapped =>
    /\ row = "custom" /\ object = 0 =>
         \E i \in Slots : sent[i].kind = "delete" /\ sent[i].pc # "failed"
    /\ gone => object = 0

\* However unequal the encodings, no crop of a picture is replaced by an older
\* one of it (image-cropper: "two settled drags can resolve out of order").
CropNeverGoesBack ==
  [][cropped'.of = cropped.of => cropped'.at >= cropped.at]_cropped
=============================================================================
