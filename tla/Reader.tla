------------------------------- MODULE Reader -------------------------------
(***************************************************************************)
(* The input methods of the runtime's Object, runtime/object.c: inputLine, *)
(* inputBool and inputInt32 over read_until and skip_while.  One step is   *)
(* one turn of a loop, that is one getc; a character that is put back is   *)
(* one that is not taken.  Allocation may fail at any time.                *)
(***************************************************************************)
EXTENDS Integers, Sequences

CONSTANTS
  Inputs,      (* what stdin can hold: sequences of characters               *)
  Capacity,    (* the capacity a buffer begins with, 1024 in the code        *)
  Bools, Ints  (* the words inputBool and inputInt32 accept                  *)

Char == {"letter", "digit", "blank", "newline"}

ASSUME InputsAssumption == Inputs \subseteq Seq(Char)
ASSUME CapacityAssumption == Capacity \in Nat \ {0}

Methods == {"inputLine", "inputBool", "inputInt32"}

VARIABLES
  input,       (* the whole of stdin                                         *)
  taken,       (* how many of its characters have been read                  *)
  pc,          (* where the call is; "exited" after exit(EXIT_FAILURE)       *)
  method,      (* the method called                                          *)
  from,        (* what was taken when it was called ...                      *)
  start,       (* ... and when its read_until was                            *)
  n, i, buf    (* of read_until: capacity, next index, buffer                *)

vars == <<input, taken, pc, method, from, start, n, i, buf>>

Space(c) == c \in {"blank", "newline"}
Stops(c) == IF method = "inputLine" THEN c = "newline" ELSE Space(c)

AtEnd == taken = Len(input)

(* What getc is going to return.                                           *)
Upcoming == IF AtEnd THEN "eof" ELSE input[taken + 1]

Ends == AtEnd \/ Stops(Upcoming)

Fresh(size) == [k \in 0 .. size - 1 |-> "garbage"]

(* What realloc returns: a larger buffer with the old contents.            *)
Grown(size) == [k \in 0 .. size - 1 |-> IF k < n THEN buf[k] ELSE "garbage"]

(* The string in the buffer: strlen stops at the terminator.               *)
Word == [k \in 1 .. i |-> buf[k - 1]]

-----------------------------------------------------------------------------
Init == /\ input \in Inputs /\ taken = 0
        /\ pc = "idle" /\ method \in Methods
        /\ from = 0 /\ start = 0
        /\ n = Capacity /\ i = 0 /\ buf = Fresh(Capacity)

Call == /\ pc \in {"idle", "returned"}
        /\ method' \in Methods
        /\ pc' = IF method' = "inputLine" THEN "allocate" ELSE "skip"
        /\ from' = taken
        /\ UNCHANGED <<input, taken, start, n, i, buf>>

(* skip_while(isspace).                                                    *)
Skip == /\ pc = "skip"
        /\ \/ Space(Upcoming) /\ taken' = taken + 1 /\ UNCHANGED pc
           \/ ~ Space(Upcoming) /\ pc' = "allocate" /\ UNCHANGED taken
        /\ UNCHANGED <<input, method, from, start, n, i, buf>>

Allocate == /\ pc = "allocate"
            /\ pc' \in {"read", "out of memory"}
            /\ start' = taken
            /\ n' = Capacity /\ i' = 0 /\ buf' = Fresh(Capacity)
            /\ UNCHANGED <<input, taken, method, from>>

(* Slip: the buffer grows when it is past its end.                         *)
ReadCharLate ==
  /\ pc = "read" /\ ~ Ends
  /\ taken' = taken + 1 /\ i' = i + 1
  /\ \/ /\ i # n
        /\ buf' = [buf EXCEPT ![i] = Upcoming]
        /\ UNCHANGED <<n, pc>>
     \/ /\ i = n
        /\ n' = 2 * n
        /\ pc' \in {"read", "out of memory"}
        /\ buf' = [Grown(2 * n) EXCEPT ![i] = Upcoming]
  /\ UNCHANGED <<input, method, from, start>>

(* Slip: the new buffer replaces the old one without its contents.         *)
ReadCharAnew ==
  /\ pc = "read" /\ ~ Ends
  /\ taken' = taken + 1 /\ i' = i + 1
  /\ \/ /\ i # n - 1
        /\ buf' = [buf EXCEPT ![i] = Upcoming]
        /\ UNCHANGED <<n, pc>>
     \/ /\ i = n - 1
        /\ n' = 2 * n
        /\ pc' \in {"read", "out of memory"}
        /\ buf' = Fresh(2 * n)
  /\ UNCHANGED <<input, method, from, start>>

(* A turn of read_until's loop that keeps a character: the buffer grows as *)
(* soon as the character fills it.                                         *)
ReadChar ==
  /\ pc = "read" /\ ~ Ends
  /\ taken' = taken + 1 /\ i' = i + 1
  /\ \/ /\ i # n - 1
        /\ buf' = [buf EXCEPT ![i] = Upcoming]
        /\ UNCHANGED <<n, pc>>
     \/ /\ i = n - 1
        /\ n' = 2 * n
        /\ pc' \in {"read", "out of memory"}
        /\ buf' = [Grown(2 * n) EXCEPT ![i] = Upcoming]
  /\ UNCHANGED <<input, method, from, start>>

(* Slip: what ended the string is not put back.                            *)
ReadEndTaken ==
  /\ pc = "read" /\ Ends
  /\ buf' = [buf EXCEPT ![i] = "nul"]
  /\ taken' = taken + 1
  /\ pc' = "word"
  /\ UNCHANGED <<input, method, from, start, n, i>>

(* The turn that ends it: the terminator is written after the characters.  *)
ReadEnd ==
  /\ pc = "read" /\ Ends
  /\ buf' = [buf EXCEPT ![i] = "nul"]
  /\ pc' = "word"
  /\ UNCHANGED <<input, taken, method, from, start, n, i>>

Accepted == \/ method = "inputLine"
            \/ method = "inputBool" /\ Word \in Bools
            \/ method = "inputInt32" /\ Word \in Ints

(* Slip: a call without a string goes round again.                         *)
FinishOrRetry ==
  /\ \/ pc = "word" /\ pc' = IF Accepted THEN "returned" ELSE "exited"
     \/ pc = "out of memory" /\ pc' = "allocate"
  /\ UNCHANGED <<input, taken, method, from, start, n, i, buf>>

(* What the methods do with the string, or without one: inputLine returns  *)
(* it, or the empty string; the others convert it or end the program.      *)
Finish ==
  /\ \/ pc = "word" /\ pc' = IF Accepted THEN "returned" ELSE "exited"
     \/ /\ pc = "out of memory"
        /\ pc' = IF method = "inputLine" THEN "returned" ELSE "exited"
  /\ UNCHANGED <<input, taken, method, from, start, n, i, buf>>

Turn == Skip \/ Allocate \/ ReadChar \/ ReadEnd \/ Finish
Next == Call \/ Turn

Spec == Init /\ [][Next]_vars

(* The runtime goes on with a call until it is over.                       *)
FairSpec == Spec /\ WF_vars(Turn)

-----------------------------------------------------------------------------
TypeOK ==
  /\ input \in Inputs /\ taken \in 0 .. Len(input)
  /\ pc \in {"idle", "skip", "allocate", "read", "out of memory", "word",
             "returned", "exited"}
  /\ method \in Methods
  /\ from \in 0 .. taken /\ start \in 0 .. taken
  /\ n \in Nat \ {0} /\ i \in Nat
  /\ DOMAIN buf = 0 .. n - 1

(* Every turn of read_until has room for the character or the terminator   *)
(* that it writes.                                                         *)
BufferFits == pc = "read" => i < n

(* The string a call works with is terminated, is what was taken from the  *)
(* input since its read_until began, holds no character that ends it, and  *)
(* ends where the input does or before a character that does.              *)
StringIsInput ==
  pc = "word" =>
    /\ i < n /\ buf[i] = "nul"
    /\ taken = start + i
    /\ \A k \in 0 .. i - 1 :
         buf[k] = input[start + k + 1] /\ ~ Stops(input[start + k + 1])
    /\ Ends

(* A call comes to its end: it returns or ends the program.                *)
CallsEnd == pc \in {"skip", "allocate", "read"} ~> pc \in {"returned", "exited"}

-----------------------------------------------------------------------------
(* What object.h says of inputLine, and is not so: it reads a line "with   *)
(* the end-of-line removed", and the empty string comes back "if no input  *)
(* can be read".  A call that has read its string and took nothing is one  *)
(* that nothing is left for.                                               *)
LinesAreTaken ==
  /\ pc = "returned" /\ method = "inputLine" /\ taken = from
  /\ i < n /\ buf[i] = "nul"
  => AtEnd
=============================================================================
