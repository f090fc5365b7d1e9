---------------------------- MODULE VirtualFiles ----------------------------
(***************************************************************************)
(* What the VMM's system calls promise their guest: the guest sees the     *)
(* files and descriptors of an ordinary process, as if no VMM, no table    *)
(* and no other descriptors were there.  SyscallHandler implements it.     *)
(***************************************************************************)
EXTENDS FileContents

CONSTANTS Path, Tty,
          OldContents, \* of the files that exist before the guest runs
          Number,     \* what open may answer
          OpenFlags,  \* what the guest asks: flags of its opens,
          WriteFd,    \* numbers it writes to,
          Buffers,    \* the bytes it writes,
          CloseFd,    \* numbers it closes,
          DummyCall   \* and calls that do nothing

VARIABLES open,    \* the guest's open descriptors, by the guest's numbers
          files,   \* the files that exist and their contents
          answer,  \* what the last call returned
          alive    \* the guest has not exited

vars == <<open, files, answer, alive>>

Init ==
  /\ open = [g \in 0..2 |-> [node |-> Tty, pos |-> 0, flags |-> {}]]
  /\ \E existing \in SUBSET Path : files \in [existing -> OldContents]
  /\ answer = 0
  /\ alive = TRUE

Refused == answer' = -1 /\ UNCHANGED <<open, files, alive>>

(* An open gives a number that is not in use, on the file it names.        *)
Open(p, fl) ==
  \/ /\ p \in DOMAIN files => ~ ({"CREAT", "EXCL"} \subseteq fl)
     /\ p \in DOMAIN files \/ "CREAT" \in fl
     /\ \E g \in Number \ DOMAIN open :
          /\ answer' = g
          /\ open' = [n \in DOMAIN open \cup {g} |->
                        IF n = g THEN [node |-> p, pos |-> 0, flags |-> fl]
                                 ELSE open[n]]
     /\ files' = [q \in DOMAIN files \cup {p} |->
                    IF q = p /\ (p \notin DOMAIN files \/ "TRUNC" \in fl)
                      THEN <<>> ELSE files[q]]
     /\ UNCHANGED alive
  \/ Refused

(* A write through an open number puts the bytes it answers for at the     *)
(* position of that number, in its file and in no other.                   *)
Write(g, data) ==
  \/ /\ g \in DOMAIN open
     /\ open[g].node \in Path
     /\ "RDONLY" \notin open[g].flags
     /\ \E r \in 0..Len(data) :
          LET at == IF "APPEND" \in open[g].flags THEN Len(files[open[g].node])
                                                  ELSE open[g].pos
          IN  /\ files' = [files EXCEPT ![open[g].node] =
                             WriteAt(@, at, SubSeq(data, 1, r))]
              /\ open' = [open EXCEPT ![g].pos = at + r]
              /\ answer' = r
     /\ UNCHANGED alive
  \/ /\ g \in DOMAIN open
     /\ open[g].node = Tty
     /\ answer' = Len(data)
     /\ UNCHANGED <<open, files, alive>>
  \/ /\ g \in DOMAIN open => open[g].node \in Path
     /\ Refused

(* A close frees that number and no other; it succeeds on an open number.  *)
Close(g) ==
  \/ /\ g \in DOMAIN open
     /\ answer' = 0
     /\ open' = [n \in DOMAIN open \ {g} |-> open[n]]
     /\ UNCHANGED <<files, alive>>
  \/ /\ g \notin DOMAIN open
     /\ Refused

Dummy(call) == answer' = call /\ UNCHANGED <<open, files, alive>>

Exit ==
  /\ answer' = 0
  /\ open' = [g \in {} |-> g]
  /\ alive' = FALSE
  /\ UNCHANGED files

Next ==
  /\ alive
  /\ \/ \E p \in Path, fl \in OpenFlags : Open(p, fl)
     \/ \E g \in WriteFd, data \in Buffers : Write(g, data)
     \/ \E g \in CloseFd : Close(g)
     \/ \E call \in DummyCall : Dummy(call)
     \/ Exit

Spec == Init /\ [][Next]_vars
=============================================================================
