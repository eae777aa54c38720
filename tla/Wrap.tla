---------------------------------- MODULE Wrap ----------------------------------
(***************************************************************************)
(* How a headline gets onto the display: stringbuffer_wrap of              *)
(* src/src/util.c breaks it at spaces and after hyphens, falls back to a    *)
(* cut at the display's width, and update_screen_text of src/src/rss.c      *)
(* reads the lines back and shows as many as there are rows.                *)
(*                                                                         *)
(* A step is one iteration of one of the C loops.  An offset counts from 0  *)
(* as a C pointer into the string does: the character at offset p is        *)
(* buf[p + 1], and offset Len(buf) is the terminator.                       *)
(***************************************************************************)
EXTENDS Integers, Sequences, SequencesExt, Selection

CONSTANTS
  Space, Hyphen, Newline,
  MaxText,         \* BOUND: length of a headline
  Widths,          \* display_size.width
  Heights          \* display_size.height

ASSUME TextAssumption ==
  /\ MaxText \in Nat
  /\ Widths \subseteq Nat \ {0}
  /\ Heights \subseteq Nat \ {0, 1}
  /\ Space # Hyphen /\ Space # Newline /\ Hyphen # Newline
  /\ \A i \in 1..MaxText : i \notin {Space, Hyphen, Newline}

VARIABLES
  (* the arguments *)
  text,            \* buffer->str; a letter is the number of its place
  length, maxlines,
  rows,            \* lines the screen has, one more without a title
  (* the locals *)
  buf,             \* new_str->str
  remainder,       \* the rest to be broken, as an offset
  old, new,        \* the last break that fits, and the next one
  pc,
  shown            \* the lines on the display

arguments == <<text, length, maxlines, rows>>
vars == <<text, length, maxlines, rows, buf, remainder, old, new, pc, shown>>

NULL == -1

(* No string of GLib's has less room than this for it to grow in place. *)
Room == 2

Init ==
  /\ \E n \in 0..MaxText : \E f \in [1..n -> {0, Space, Hyphen, Newline}] :
       text = [i \in 1..n |-> IF f[i] = 0 THEN i ELSE f[i]]
  /\ length \in Widths
  /\ \E height \in Heights :
       /\ maxlines = height - 1
       /\ rows \in {height - 1, height}
  /\ buf = text
  /\ remainder = 0
  /\ old = 0
  /\ new = 0
  /\ pc = "wrap"
  /\ shown = <<>>

Long == Len(buf) - remainder > length     \* strlen(remainder) > length

-----------------------------------------------------------------------------
(* stringbuffer_get_lines and stringbuffer_get_line (from 0). *)

Ends(s) == SelectSeq([i \in 1..Len(s) |-> i], LAMBDA i : s[i] = Newline)

get_lines(s) ==
  Len(Ends(s)) + (IF s # <<>> /\ Last(s) = Newline THEN 0 ELSE 1)

get_line(s, line) ==
  LET end == <<0>> \o Ends(s) \o <<Len(s) + 1>>
  IN SubSeq(s, end[line + 1] + 1, end[line + 2] - 1)

-----------------------------------------------------------------------------
(* stringbuffer_wrap chooses how to wrap. *)
Wrap ==
  /\ pc = "wrap"
  /\ pc' = IF length * maxlines < Len(text) THEN "simple" ELSE "spaces"
  /\ UNCHANGED <<arguments, buf, remainder, old, new, shown>>

(* g_string_insert_c may have to move the string; remainder then points    *)
(* into freed memory and is read next, in each of the callers.              *)
MayMove == Len(buf) >= Len(text) + Room

SkipSpace(s, at) ==
  IF at < Len(s) /\ s[at + 1] = Space THEN RemoveAt(s, at + 1) ELSE s

(* The inner loop of stringbuffer_wrap_spaces. *)
NextBreak(from) ==
  LET found == {p \in from..(Len(buf) - 1) : buf[p + 1] \in {Space, Hyphen}}
      p == Min(found)
  IN IF found = {} THEN NULL ELSE IF buf[p + 1] = Hyphen THEN p + 1 ELSE p

(* mutant: the limit of the line is off by one *)
Fits_OffByOne == new # NULL /\ new - remainder <= length + 1

Fits == new # NULL /\ new - remainder <= length

(* mutant: the search starts at the break just found *)
Scan_FromNew ==
  /\ pc = "spaces"
  /\ Long
  /\ Fits
  /\ old' = new
  /\ new' = NextBreak(new)
  /\ UNCHANGED <<arguments, buf, remainder, pc, shown>>

Scan ==
  /\ pc = "spaces"
  /\ Long
  /\ Fits
  /\ old' = new
  /\ new' = NextBreak(new + 1)
  /\ UNCHANGED <<arguments, buf, remainder, pc, shown>>

(* mutant: every break overwrites a character *)
Broken_Overwrites ==
  IF old = remainder
  THEN InsertAt(buf, remainder + length + 1, Newline)
  ELSE SkipSpace(ReplaceAt(buf, old + 1, Newline), old + 1)

(* mutant: every break inserts a newline *)
Broken_Inserts ==
  IF old = remainder
  THEN InsertAt(buf, remainder + length + 1, Newline)
  ELSE InsertAt(buf, old + 1, Newline)

(* The line is broken at old, or at its full length if there is no break. *)
Broken ==
  IF old = remainder
  THEN InsertAt(buf, remainder + length + 1, Newline)
  ELSE SkipSpace(IF buf[old] = Hyphen THEN InsertAt(buf, old + 1, Newline)
                                      ELSE ReplaceAt(buf, old + 1, Newline),
                 old + 1)

Inserts == old = remainder \/ buf[old] = Hyphen

BreakLine(next) ==
  /\ pc = "spaces"
  /\ Long
  /\ ~ Fits
  /\ buf' = Broken
  /\ remainder' = next
  /\ old' = next
  /\ new' = next
  /\ UNCHANGED <<arguments, pc, shown>>

(* mutant: the character after the break is skipped, too *)
BreakAtSpace_Skips ==
  BreakLine(IF old = remainder THEN remainder + length + 1 ELSE old + 2)

(* mutant: the full length is taken although there is a break *)
BreakAtSpace_Greedy ==
  /\ pc = "spaces"
  /\ Long
  /\ ~ Fits
  /\ buf' = InsertAt(buf, remainder + length + 1, Newline)
  /\ remainder' = remainder + length + 1
  /\ old' = remainder'
  /\ new' = remainder'
  /\ UNCHANGED <<arguments, pc, shown>>

BreakAtSpace ==
  BreakLine(IF old = remainder THEN remainder + length + 1 ELSE old + 1)

(* mutant: the first attempt is taken however many lines it has *)
Tried_Anyway ==
  /\ pc = "spaces"
  /\ ~ Long
  /\ pc' = "show"
  /\ UNCHANGED <<arguments, buf, remainder, old, new, shown>>

(* The loop has ended: too many lines, and it is done again without care. *)
Tried ==
  /\ pc = "spaces"
  /\ ~ Long
  /\ IF get_lines(buf) <= maxlines
     THEN pc' = "show" /\ UNCHANGED <<buf, remainder>>
     ELSE pc' = "simple" /\ buf' = text /\ remainder' = 0
  /\ UNCHANGED <<arguments, old, new, shown>>

(* stringbuffer_wrap_simple; its pos is remainder + length. *)
Cut ==
  /\ pc = "simple"
  /\ Long
  /\ remainder' = remainder + length + 1
  /\ buf' = SkipSpace(InsertAt(buf, remainder + length + 1, Newline),
                      remainder')
  /\ UNCHANGED <<arguments, old, new, pc, shown>>

CutDone ==
  /\ pc = "simple"
  /\ ~ Long
  /\ pc' = "show"
  /\ UNCHANGED <<arguments, buf, remainder, old, new, shown>>

(* The string moves: the program goes on with a dangling pointer. *)
Dangle ==
  /\ MayMove
  /\ Long
  /\ \/ pc = "simple"
     \/ pc = "spaces" /\ ~ Fits /\ Inserts
  /\ pc' = "dangling"
  /\ UNCHANGED <<arguments, buf, remainder, old, new, shown>>

(* update_screen_text; screen_show_text ignores a line the screen has not. *)
Show ==
  /\ pc = "show"
  /\ shown' = [k \in 1..Min({rows, get_lines(buf)}) |-> get_line(buf, k - 1)]
  /\ pc' = "done"
  /\ UNCHANGED <<arguments, buf, remainder, old, new>>

Next ==
  \/ Wrap \/ Scan \/ BreakAtSpace \/ Tried \/ Cut \/ CutDone \/ Dangle \/ Show

(* Sequential code: it goes on until it returns. *)
Spec == Init /\ [][Next]_vars /\ WF_vars(Next)

-----------------------------------------------------------------------------
(* Every pointer stays within its string or on its terminator, and the scan *)
(* never starts beyond the terminator (strchr2(new + 1) in util.c:159).     *)
TypeOK ==
  /\ pc \in {"wrap", "spaces", "simple", "show", "done", "dangling"}
  /\ remainder \in 0..Len(buf)
  /\ old \in remainder..Len(buf) \/ pc # "spaces"
  /\ new \in {NULL} \cup remainder..Len(buf) \/ pc # "spaces"
  /\ pc = "spaces" /\ Long /\ Fits => new < Len(buf)
  /\ \A i \in DOMAIN buf : buf[i] \in 1..MaxText \cup {Space, Hyphen, Newline}

(* And remainder can dangle only in a text longer than three lines, or one  *)
(* that is broken at hyphens: two insertions never move the string          *)
(* (util.c:108).                                                            *)
PointersSafe ==
  /\ TypeOK
  /\ pc = "dangling" => Len(text) > 3 * length \/ Hyphen \in ToSet(text)

(* No wrapped line is wider than the display, whatever the text, whichever  *)
(* way it was wrapped (util.c:88, 137).                                     *)
LinesFit ==
  pc \in {"show", "done"} =>
    \A i \in 1..(Len(buf) - length) :
      \E j \in i..(i + length) : buf[j] = Newline

Letters == 1..MaxText

Ink(s) == Select(s, Letters \cup {Hyphen})

(* The newline in place p is in the middle of a word. *)
SplitsWord(p) ==
  /\ buf[p] = Newline
  /\ buf[p - 1] \in Letters /\ buf[p + 1] \in Letters
  /\ buf[p + 1] = buf[p - 1] + 1

InkKept == Ink(buf) = Ink(text)

WordsKept ==
  pc = "spaces" =>
    \A p \in 2..(Len(buf) - 1) :
      SplitsWord(p) =>
        /\ p > length
        /\ \A q \in (p - length + 1)..(p - 1) : buf[q] \notin {Space, Hyphen}

(* Wrapping keeps the letters and the hyphens, in order.  Only spaces go,   *)
(* and newlines come (util.c:169 must not overwrite what follows a hyphen). *)
(* While breaking at spaces, a word is broken only if it fills a line that  *)
(* has no break other than in its first place (util.c:165).                 *)
TextKept == InkKept /\ WordsKept

(* The loops end, each brings remainder nearer to the end of the string, and *)
(* then what is displayed is the beginning of the text; and all of it if it  *)
(* is one line with no more characters than the display has: that is what    *)
(* the second attempt of stringbuffer_wrap is for (util.c:195).              *)
Displayed ==
  /\ pc = "done"
  /\ IsPrefix(Ink(FlattenSeq(shown)), Ink(text))
  /\ Newline \notin ToSet(text) /\ Len(text) <= length * maxlines
       => Ink(FlattenSeq(shown)) = Ink(text)

GetsDisplayed == <>(pc = "dangling" \/ Displayed)
=================================================================================
