-------------------------- MODULE ClipboardMonitor --------------------------
(***************************************************************************)
(* The thread that watches the clipboard (prism-core, clipboard.rs) and    *)
(* what becomes of the links it finds (manager/mod.rs, the window's event  *)
(* loop).  The thread asks the system for the number of changes, whether   *)
(* the content is concealed, and the text, one call after another, while   *)
(* other programs copy.  A text is a sequence of tokens, which are links   *)
(* with an extension, magnets or words.                                    *)
(***************************************************************************)
EXTENDS Naturals, Sequences, SequencesExt

CONSTANTS Texts,         \* what programs copy
          Extensions,    \* the extensions that the settings capture
          MaxLinks,      \* links taken of one text (200)
          Stamped,       \* whether the system counts the changes of the clipboard
          MaxCopies,     \* copies in a run
          MaxFaults      \* readings that fail because another program holds the clipboard

NoText == <<>>           \* the text of an empty clipboard
NoStamp == 0             \* the system does not count

VARIABLES board,         \* the clipboard: [text, concealed, copy], copy counts the changes
          on,            \* settings.clipboard.monitor
          ask,           \* settings.clipboard.ask
          pc,            \* what the thread does next
          last,          \* the text it saw last
          stamp,         \* the change it saw last
          now,           \* the change it is looking at
          events,        \* ClipboardUrls not yet handled: [links, copy]
          taken,         \* what was done for them: [how, links, copy]
          read,          \* copies whose text the thread has read
          early,         \* copies made before the thread had started
          faults

vars == <<board, on, ask, pc, last, stamp, now, events, taken, read, early, faults>>
system == <<board, on, ask>>
thread == <<pc, last, stamp, now>>

ChangeStamp == IF Stamped THEN board.copy + 1 ELSE NoStamp

\* extract_urls: magnets, and links whose extension is captured; never twice in a row.
Qualifies(token) == token.kind = "magnet" \/ (token.kind = "link" /\ token.ext \in Extensions)
Dedup(s) == SelectSeq([i \in DOMAIN s |-> [token |-> s[i], new |-> i = 1 \/ s[i] # s[i - 1]]],
                      LAMBDA x : x.new)
ExtractUrls(text) ==
  LET found == SelectSeq(text, Qualifies)
      urls == Dedup(SubSeq(found, 1, IF Len(found) < MaxLinks THEN Len(found) ELSE MaxLinks))
  IN  [i \in DOMAIN urls |-> urls[i].token]

Init ==
  /\ \E t \in Texts \cup {NoText} : board = [text |-> t, concealed |-> FALSE, copy |-> 0]
  /\ on \in BOOLEAN /\ ask \in BOOLEAN
  /\ pc = "start" /\ last = NoText /\ stamp = NoStamp /\ now = NoStamp
  /\ events = <<>> /\ taken = {} /\ read = {} /\ early = {0} /\ faults = 0

------------------------------------------------------------------------------
(* The rest of the system                                                   *)

Copy ==
  /\ board.copy < MaxCopies
  /\ \E t \in Texts, concealed \in (IF Stamped THEN BOOLEAN ELSE {FALSE}) :
       board' = [text |-> t, concealed |-> concealed, copy |-> board.copy + 1]
  /\ early' = IF pc \in {"start", "stamp"} THEN early \cup {board.copy + 1} ELSE early
  /\ UNCHANGED <<on, ask, thread, events, taken, read, faults>>

\* The user switches the monitor off, or on again.
Switch ==
  /\ on' = ~on
  /\ UNCHANGED <<board, ask, thread, events, taken, read, early, faults>>

\* The event loop of the window: one link is captured, several open the batch window, and
\* without `ask` they go into the list.
Handle ==
  /\ events # <<>> /\ events' = Tail(events)
  /\ LET e == Head(events)
         how == IF ~ask THEN "list" ELSE IF Len(e.links) = 1 THEN "capture" ELSE "batch"
     IN  taken' = IF on THEN taken \cup {[how |-> how, links |-> e.links, copy |-> e.copy]}
                  ELSE taken
  /\ UNCHANGED <<system, thread, read, early, faults>>

------------------------------------------------------------------------------
(* The thread                                                               *)

\* It ignores what is on the clipboard when it starts.  An unreadable text counts as none.
Start ==
  /\ pc = "start"
  /\ \/ last' = board.text /\ UNCHANGED faults
     \/ faults < MaxFaults /\ faults' = faults + 1 /\ last' = NoText
  /\ pc' = "stamp"
  /\ UNCHANGED <<system, stamp, now, events, taken, read, early>>

StartStamp ==
  /\ pc = "stamp"
  /\ stamp' = ChangeStamp
  /\ pc' = "sleep"
  /\ UNCHANGED <<system, last, now, events, taken, read, early, faults>>

\* The timer fires; nothing more happens unless the clipboard may have changed.
Wake ==
  /\ pc = "sleep"
  /\ Stamped => ChangeStamp # stamp
  /\ now' = ChangeStamp
  /\ pc' = "concealed"
  /\ UNCHANGED <<system, last, stamp, events, taken, read, early, faults>>

CheckConcealed ==
  /\ pc = "concealed"
  /\ IF board.concealed THEN stamp' = now /\ pc' = "sleep"
     ELSE pc' = "text" /\ UNCHANGED stamp
  /\ UNCHANGED <<system, last, now, events, taken, read, early, faults>>

\* Mutant: the change counts as seen although its text could not be read.
AfterFailure_Seen == now

\* The last change seen, once the text could not be read: the next tick tries again.
AfterFailure == stamp

ReadFails ==
  /\ pc = "text" /\ faults < MaxFaults
  /\ faults' = faults + 1
  /\ stamp' = AfterFailure
  /\ pc' = "sleep"
  /\ UNCHANGED <<system, last, now, events, taken, read, early>>

\* Mutant: a text is offered each time it is read.
IsNew_Always(text) == TRUE

IsNew(text) == text # last

\* The text is read, compared, and offered if the settings say so at that moment.
ReadText ==
  /\ pc = "text"
  /\ stamp' = now
  /\ last' = board.text
  /\ read' = read \cup {board.copy}
  /\ LET links == ExtractUrls(board.text)
     IN  events' = IF IsNew(board.text) /\ on /\ links # <<>>
                   THEN Append(events, [links |-> links, copy |-> board.copy]) ELSE events
  /\ pc' = "sleep"
  /\ UNCHANGED <<system, now, taken, early, faults>>

Next == \/ Copy \/ Switch \/ Handle
        \/ Start \/ StartStamp \/ Wake \/ CheckConcealed \/ ReadFails \/ ReadText

Spec == Init /\ [][Next]_vars

------------------------------------------------------------------------------
Offers == {events[i] : i \in DOMAIN events}

TypeOK ==
  /\ board \in [text : Texts \cup {NoText}, concealed : BOOLEAN, copy : 0 .. MaxCopies]
  /\ on \in BOOLEAN /\ ask \in BOOLEAN
  /\ pc \in {"start", "stamp", "sleep", "concealed", "text"}
  /\ last \in Texts \cup {NoText}
  /\ stamp \in 0 .. MaxCopies + 1 /\ now \in 0 .. MaxCopies + 1
  /\ \A o \in Offers : o.copy \in 0 .. MaxCopies
  /\ \A d \in taken : d.how \in {"list", "capture", "batch"}
  /\ read \subseteq 0 .. MaxCopies /\ early \subseteq 0 .. MaxCopies /\ faults \in 0 .. MaxFaults

\* A copy made while the thread runs is read before the thread takes it for seen, unless it is
\* concealed: however the reading fails and whenever another copy comes in between, the thread
\* does not sleep through it (ClipboardMonitor::spawn).
NoCopySleptThrough ==
  pc = "sleep" /\ Stamped /\ stamp = ChangeStamp /\ ~board.concealed /\ board.copy \notin early
    => board.copy \in read

\* The links of one copy are offered once, also where the system counts no changes and the
\* clipboard is read at every tick (ClipboardMonitor::spawn).
OfferedOnce ==
  /\ \A i, j \in DOMAIN events : events[i].copy = events[j].copy => i = j
  /\ \A d \in taken, o \in Offers : d.copy # o.copy
  /\ \A d, e \in taken : d.copy = e.copy => d = e

=============================================================================
