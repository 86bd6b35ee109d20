---------------------------- MODULE Preprocessor ----------------------------
(***************************************************************************)
(* main.c and helper.c of so-cpp: a recursive preprocessor.  parseFile,    *)
(* ifelse and ifdef read lines from the same stream and call each other,   *)
(* so the C stack is the program's only record of the open conditionals.   *)
(* The symbols are in the table of HashTable; the lines of the files are   *)
(* chosen as they are read.                                                *)
(***************************************************************************)
EXTENDS HashTable, Sequences, FiniteSets

CONSTANTS
  Char,       \* characters of words
  Blank,      \* what strtok takes for the end of a word
  Line,       \* lines a file may hold (records, see below)
  Argument,   \* command-line arguments (records, see GetArg)
  HomeDir,    \* getDirectory of the input file
  Tree,       \* the <<directory, file>> pairs that exist
  MaxInputs,  \* bound: arguments given and lines read, in all
  MaxDepth    \* bound: calls on the stack

Word == Seq(Char) \ {<<>>}
Text == Seq(Char \cup {Blank})

(* A line is [d |-> directive, indented |-> BOOLEAN, ...]: "define" and     *)
(* "continued" (a #define over several lines) have a key and a val, a       *)
(* sequence of words; "undef", "ifdef" and "ifndef" a key, "if" and "elif"  *)
(* a cond, "include" a file, "text" its words.                              *)

ASSUME PreprocessorAssumption ==
  /\ Key \subseteq Word /\ Blank \notin Char /\ NULL \notin Text
  /\ MaxInputs \in Nat /\ MaxDepth \in Nat
  /\ \A l \in Line : /\ l.indented \in BOOLEAN
                     /\ l.d \in {"define", "continued"} => l.key \in Key /\ l.val \in Seq(Word)
                     /\ l.d = "undef" => l.key \in Key
                     /\ l.d = "text" => l.words \in Seq(Word)
  /\ \A a \in Argument : a.opt = "D" => a.key \in Key /\ a.val \in Seq(Word)

VARIABLES
  map,        \* the symbol table: keys are words, values texts
  stack,      \* calls of parseFile, ifelse and ifdef that have not returned
  chase,      \* defineMap resolving the names in a value, or NULL
  out,        \* what the last line wrote to the output, or NULL
  dirs, input, output,  \* main: the directories of -I, the file names given
  pc,         \* "args", "run", "exit0" or "exit1"
  count,      \* history: arguments and lines read
  groups,     \* history: the conditionals open as in C, outermost first
  plain,      \* history: no conditional came where the code does not look for one
  unresolved, \* history: a value was stored without resolving its names
  hidden      \* history: an #undef changed more than its own symbol

state == <<map, stack, chase, out>>
command == <<dirs, input, output>>
marks == <<unresolved, hidden>>
history == <<count, groups, plain, marks>>
vars == <<state, command, pc, history>>

Top(s) == s[Len(s)]
Pop(s) == SubSeq(s, 1, Len(s) - 1)
WithTop(s, e) == Append(Pop(s), e)

\* get; only words are keys, so the search for any other text finds nothing.
Lookup(text) == IF text \in Key THEN Get(map, text) ELSE NULL

Defined(n) == Lookup(n) # NULL

\* A condition holds unless its token, or the value of it, is "0".
Holds(token) == (IF Defined(token) THEN Lookup(token) ELSE token) # <<"0">>

\* The text of some words or texts, with something between them.
Join(texts) ==
  LET joined[i \in 0..Len(texts)] ==
        IF i = 0 THEN <<>>
        ELSE joined[i-1] \o (IF i = 1 THEN <<>> ELSE <<Blank>>) \o texts[i]
  IN joined[Len(texts)]

\* strncmp(&text[i], key, strlen(key)) == 0
Occurs(key, text, i) ==
  /\ i + Len(key) <= Len(text) + 1
  /\ \A j \in 1..Len(key) : text[i+j-1] = key[j]

Inside(key, text) == \E i \in 1..Len(text) : Occurs(key, text, i)

\* Where key first occurs, be it as a word or within one.
First(key, text) == CHOOSE i \in 1..Len(text) :
  Occurs(key, text, i) /\ \A j \in 1..i-1 : ~Occurs(key, text, j)

Replace(text, key, value) ==
  IF ~Inside(key, text) THEN text
  ELSE LET i == First(key, text)
       IN SubSeq(text, 1, i-1) \o value \o SubSeq(text, i+Len(key), Len(text))

\* Faulty variant: every replacement starts again from the line that was read.
ExpandedAfresh(words) ==
  LET result[i \in 0..Len(words)] ==
        IF i # 0 /\ Defined(words[i])
        THEN Replace(Join(words), words[i], Lookup(words[i]))
        ELSE IF i = 0 THEN Join(words) ELSE result[i-1]
  IN result[Len(words)]

\* The loop of parseFile over the words of an ordinary line.
Expanded(words) ==
  LET result[i \in 0..Len(words)] ==
        IF i = 0 THEN Join(words)
        ELSE IF Defined(words[i])
             THEN Replace(result[i-1], words[i], Lookup(words[i]))
             ELSE result[i-1]
  IN result[Len(words)]

-----------------------------------------------------------------------------
(***************************************************************************)
(* The command line                                                        *)
(***************************************************************************)
Init ==
  /\ map = CreateHashMap(6)
  /\ stack = <<>> /\ chase = NULL /\ out = NULL
  /\ dirs = {} /\ input = NULL /\ output = NULL
  /\ pc = "args"
  /\ count = 0 /\ groups = <<>> /\ plain = TRUE
  /\ unresolved = FALSE /\ hidden = FALSE

\* -D: the value is stored as it is given.
ArgDefine(a) ==
  /\ a.opt = "D"
  /\ map' = Inserted(map, a.key, Join(a.val))
  /\ unresolved' = TRUE
  /\ UNCHANGED <<hidden, dirs, input, output, pc>>

ArgDirectory(a) ==
  /\ a.opt = "I"
  /\ dirs' = dirs \cup {a.dir}
  /\ UNCHANGED <<map, input, output, pc, marks>>

ArgOutput(a) ==
  /\ a.opt = "o"
  /\ output' = a.file
  /\ UNCHANGED <<map, dirs, input, pc, marks>>

\* Without an option: the input, then the output, then one too many.
ArgFile(a) ==
  /\ a.opt = ""
  /\ IF input = NULL THEN input' = a.file /\ UNCHANGED <<output, pc>>
     ELSE IF output = NULL THEN output' = a.file /\ UNCHANGED <<input, pc>>
     ELSE pc' = "exit1" /\ UNCHANGED <<input, output>>
  /\ UNCHANGED <<map, dirs, marks>>

GetArg ==
  /\ pc = "args" /\ count < MaxInputs
  /\ \E a \in Argument :
       ArgDefine(a) \/ ArgDirectory(a) \/ ArgOutput(a) \/ ArgFile(a)
  /\ count' = count + 1
  /\ UNCHANGED <<stack, chase, out, groups, plain>>

ParseFrame == [fn |-> "parseFile", base |-> Len(groups)]

\* main opens the files and calls parseFile; the input may be missing.
Start ==
  /\ pc = "args"
  /\ \/ pc' = "run" /\ stack' = <<ParseFrame>>
     \/ input # NULL /\ pc' = "exit1" /\ UNCHANGED stack
  /\ UNCHANGED <<map, chase, out, command, history>>

-----------------------------------------------------------------------------
(***************************************************************************)
(* The directives                                                          *)
(***************************************************************************)
\* defineMap up to the loop over the names in the value.  A value continued
\* over several lines, or missing, is stored at once.
Define(l) ==
  /\ l.d \in {"define", "continued"}
  /\ IF l.d = "continued" \/ l.val = <<>>
     THEN /\ map' = Inserted(map, l.key, Join(l.val))
          /\ unresolved' = (unresolved \/ l.val # <<>>)
          /\ UNCHANGED chase
     ELSE /\ chase' = [key |-> l.key, words |-> l.val, text |-> Join(l.val),
                       at |-> 1, cur |-> NULL]
          /\ UNCHANGED <<map, unresolved>>
  /\ out' = NULL
  /\ UNCHANGED <<stack, pc, hidden>>

Undef(l) ==
  /\ l.d = "undef"
  /\ map' = Deleted(map, l.key)
  /\ hidden' = (hidden \/ \E k \in Key \ {l.key} : Get(map', k) # Get(map, k))
  /\ out' = NULL
  /\ UNCHANGED <<stack, chase, pc, unresolved>>

Opening == {"if", "ifdef", "ifndef"}

\* The condition of a directive that opens a group.
Truth(l) == CASE l.d = "if" -> Holds(l.cond)
              [] l.d = "ifdef" -> Defined(l.key)
              [] l.d = "ifndef" -> ~Defined(l.key)

IfElseFrame(cond, done) == [fn |-> "ifelse", cond |-> cond, done |-> done]
IfDefFrame(cond) == [fn |-> "ifdef", cond |-> cond]

\* Faulty variant: the call after a group that was taken looks for another one.
DoneForgotten == IfElseFrame(FALSE, FALSE)

\* ifelse(in, out, map, 1, 1): a group was taken, the others are skipped.
Done == IfElseFrame(TRUE, TRUE)

\* parseFile and ifdef call ifelse for #if and ifdef for #ifdef and #ifndef.
Open(l) ==
  /\ l.d \in Opening
  /\ Len(stack) < MaxDepth
  /\ stack' = Append(stack, IF l.d = "if" THEN IfElseFrame(Truth(l), FALSE)
                            ELSE IfDefFrame(Truth(l)))
  /\ out' = NULL
  /\ UNCHANGED <<map, chase, pc, marks>>

\* getIncFile: the directory of the input file, then those of -I.
GetIncFile(file) == \E dir \in {HomeDir} \cup dirs : <<dir, file>> \in Tree

Include(l) ==
  /\ l.d = "include"
  /\ IF GetIncFile(l.file)
     THEN /\ Len(stack) < MaxDepth
          /\ stack' = Append(stack, ParseFrame)
          /\ UNCHANGED pc
     ELSE pc' = "exit1" /\ UNCHANGED stack
  /\ out' = NULL
  /\ UNCHANGED <<map, chase, marks>>

Write(text) == out' = text /\ UNCHANGED <<map, stack, chase, pc, marks>>

\* Faulty variant: a #define takes effect in a group that is skipped.
SkipDefines(l) ==
  Define(l) \/ (l.d \notin {"define", "continued"} /\ Write(NULL))

Skip(l) == Write(NULL)

Return == stack' = Pop(stack) /\ out' = NULL /\ UNCHANGED <<map, chase, pc, marks>>

\* else and elif call the function again and return from it afterwards.
Again(frame) ==
  /\ stack' = WithTop(stack, frame)
  /\ out' = NULL
  /\ UNCHANGED <<map, chase, pc, marks>>

\* A conditional group copies the lines it does not act on, but not empty ones.
Copy(l) == Write(IF l.d # "text" THEN <<l.d>>
                 ELSE IF l.words = <<>> THEN NULL ELSE Join(l.words))

-----------------------------------------------------------------------------
(***************************************************************************)
(* The three functions that read lines                                     *)
(***************************************************************************)
ParseFile(l) ==
  /\ Top(stack).fn = "parseFile"
  /\ \/ Define(l)
     \/ Undef(l)
     \/ Open(l)
     \/ Include(l)
     \/ l.d = "text" /\ Write(Expanded(l.words))
     \/ l.d \in {"elif", "else", "endif"} /\ Write(<<l.d>>)

\* ifelse and ifdef compare a line from its first column, so an indented directive
\* is ordinary text to them.
Column0(l) == IF l.indented THEN "text" ELSE l.d

IfElse(l) ==
  LET f == Top(stack)
      d == Column0(l)
  IN
  /\ f.fn = "ifelse"
  /\ \/ d = "endif" /\ Return
     \/ f.done /\ d # "endif" /\ Skip(l)
     \/ ~f.done /\ ~f.cond /\ d = "else" /\ Again(IfElseFrame(TRUE, FALSE))
     \/ ~f.done /\ ~f.cond /\ d = "elif" /\ Again(IfElseFrame(Holds(l.cond), FALSE))
     \/ ~f.done /\ ~f.cond /\ d \notin {"endif", "else", "elif"} /\ Skip(l)
     \/ ~f.done /\ f.cond /\ d \in {"else", "elif"} /\ Again(Done)
     \/ ~f.done /\ f.cond /\ d = l.d /\ Define(l)
     \/ ~f.done /\ f.cond /\ d \in Opening \cup {"undef", "include", "text"} /\ Copy(l)

IfDef(l) ==
  LET f == Top(stack)
      d == Column0(l)
  IN
  /\ f.fn = "ifdef"
  /\ \/ d = "endif" /\ Return
     \/ d = "else" /\ Again(IfDefFrame(~f.cond))
     \/ ~f.cond /\ d \notin {"endif", "else"} /\ Skip(l)
     \/ f.cond /\ d = l.d /\ (Define(l) \/ Undef(l) \/ Open(l) \/ Include(l))
     \/ f.cond /\ d \in {"elif", "text"} /\ Copy(l)

-----------------------------------------------------------------------------
(***************************************************************************)
(* defineMap: resolving the names in a value, one iteration per step       *)
(***************************************************************************)
Resolving == pc = "run" /\ chase # NULL

Token == chase.words[chase.at]

\* Faulty variant: strtok is called twice.
NotANameTwice ==
  /\ Resolving /\ chase.at <= Len(chase.words)
  /\ chase.cur = NULL /\ ~Defined(Token)
  /\ chase' = [chase EXCEPT !.at = @ + 2]
  /\ UNCHANGED <<map, stack, out, command, pc, history>>

NotAName ==
  /\ Resolving /\ chase.at <= Len(chase.words)
  /\ chase.cur = NULL /\ ~Defined(Token)
  /\ chase' = [chase EXCEPT !.at = @ + 1]
  /\ UNCHANGED <<map, stack, out, command, pc, history>>

FirstValue ==
  /\ Resolving /\ chase.at <= Len(chase.words)
  /\ chase.cur = NULL /\ Defined(Token)
  /\ chase' = [chase EXCEPT !.cur = Lookup(Token)]
  /\ UNCHANGED <<map, stack, out, command, pc, history>>

\* Faulty variant: the loop looks up the same value every time.
NextValueStuck ==
  /\ Resolving /\ chase.cur # NULL
  /\ Lookup(chase.cur) # NULL
  /\ UNCHANGED vars

\* while (get(map, another_value)): for ever in a ring of definitions.
NextValue ==
  /\ Resolving /\ chase.cur # NULL
  /\ Lookup(chase.cur) # NULL
  /\ chase' = [chase EXCEPT !.cur = Lookup(@)]
  /\ UNCHANGED <<map, stack, out, command, pc, history>>

\* Faulty variant: the value of the name is taken as it is.
SubstituteFirst ==
  /\ Resolving /\ chase.cur # NULL
  /\ chase' = [chase EXCEPT !.text = Replace(@, Token, chase.cur),
                           !.at = @ + 1, !.cur = NULL]
  /\ UNCHANGED <<map, stack, out, command, pc, history>>

Substitute ==
  /\ Resolving /\ chase.cur # NULL
  /\ Lookup(chase.cur) = NULL
  /\ chase' = [chase EXCEPT !.text = Replace(@, Token, chase.cur),
                           !.at = @ + 1, !.cur = NULL]
  /\ UNCHANGED <<map, stack, out, command, pc, history>>

StoreResolved ==
  /\ Resolving /\ chase.at > Len(chase.words)
  /\ map' = Inserted(map, chase.key, chase.text)
  /\ chase' = NULL
  /\ UNCHANGED <<stack, out, command, pc, history>>

Resolve == NotAName \/ FirstValue \/ NextValue \/ Substitute \/ StoreResolved

-----------------------------------------------------------------------------
(***************************************************************************)
(* What C makes of the same lines (history)                                *)
(***************************************************************************)
\* A line here takes part in the translation.
Live == groups = <<>> \/ Top(groups).taken

\* The conditional groups of the file that is being read.
Base == LET files == {j \in 1..Len(stack) : stack[j].fn = "parseFile"}
        IN stack[CHOOSE j \in files : \A k \in files : k <= j].base

WellFormed(l) ==
  l.d \in {"elif", "else", "endif"} =>
    /\ Len(groups) > Base
    /\ l.d # "endif" => ~Top(groups).last
    /\ l.d = "elif" => Top(groups).kind = "if"

GroupsAfter(l) ==
  LET g == Top(groups)
      Chosen(cond) == [g EXCEPT !.taken = g.live /\ ~g.chosen /\ cond,
                                !.chosen = @ \/ cond,
                                !.last = l.d = "else"]
  IN CASE l.d \in Opening ->
            Append(groups, [kind |-> l.d, live |-> Live, taken |-> Live /\ Truth(l),
                            chosen |-> Truth(l), last |-> FALSE])
       [] l.d = "elif"  -> WithTop(groups, Chosen(Holds(l.cond)))
       [] l.d = "else"  -> WithTop(groups, Chosen(TRUE))
       [] l.d = "endif" -> Pop(groups)
       [] OTHER -> groups

\* The code looks for the directive where it stands: in an #if group only for
\* those that end it and for #define, in a skipped group for those that end it,
\* and in both only at the start of a line.
LookedFor(l) ==
  LET ends == l.d \in {"elif", "else", "endif"} IN
  CASE Top(stack).fn = "parseFile" -> TRUE
    [] Top(stack).fn = "ifelse" -> /\ l.d \notin Opening /\ (Live => l.d \notin {"undef", "include"})
                                   /\ l.indented => ~Live /\ ~ends
    [] Top(stack).fn = "ifdef" -> /\ Live \/ l.d \notin Opening
                                  /\ l.indented => ~Live /\ ~ends

ReadLine(l) ==
  /\ pc = "run" /\ chase = NULL /\ count < MaxInputs
  /\ WellFormed(l)
  /\ ParseFile(l) \/ IfElse(l) \/ IfDef(l)
  /\ groups' = GroupsAfter(l)
  /\ plain' = (plain /\ LookedFor(l))
  /\ count' = count + 1
  /\ UNCHANGED command

\* getLine returns -1 to every call that reads this file.
EndOfFile ==
  LET base == Base
      file == CHOOSE j \in 1..Len(stack) :
                stack[j].fn = "parseFile" /\ \A k \in j+1..Len(stack) : stack[k].fn # "parseFile"
  IN /\ pc = "run" /\ chase = NULL
     /\ stack' = SubSeq(stack, 1, file - 1)
     /\ groups' = SubSeq(groups, 1, base)
     /\ out' = NULL
     /\ pc' = IF file = 1 THEN "exit0" ELSE "run"
     /\ UNCHANGED <<map, chase, command, count, plain, marks>>

Next ==
  \/ GetArg \/ Start \/ Resolve \/ EndOfFile
  \/ \E l \in Line : ReadLine(l)

\* The program runs on its own once it has a line.
Spec == Init /\ [][Next]_vars /\ WF_vars(Resolve)

-----------------------------------------------------------------------------
(***************************************************************************)
(* Properties                                                              *)
(***************************************************************************)
Frame == [fn : {"parseFile"}, base : Nat] \cup [fn : {"ifelse"}, cond : BOOLEAN, done : BOOLEAN]
           \cup [fn : {"ifdef"}, cond : BOOLEAN]

\* The table, the stack of calls and the value being resolved have their types.
TypeOK ==
  /\ TableOK(map, Text)
  /\ stack \in Seq(Frame) /\ (stack # <<>> => stack[1].fn = "parseFile")
  /\ chase # NULL => /\ chase.key \in Key /\ chase.text \in Text
                     /\ chase.at \in 1..Len(chase.words) + 1
  /\ pc \in {"args", "run", "exit0", "exit1"}
  /\ count \in 0..MaxInputs

\* The group of a call of ifelse or ifdef is the one being copied.
Copying(f) == f.cond /\ (f.fn = "ifelse" => ~f.done)

\* The C stack is the stack of open conditionals, and each call copies exactly
\* when C takes its group - through elif, else and included files - until a
\* conditional stands in a group the code does not look into (README.txt:29 says
\* that directives inside other directives are handled).
CallsAreGroups ==
  LET Calls(j) == Cardinality({k \in 1..j : stack[k].fn # "parseFile"}) IN
  plain => /\ Calls(Len(stack)) = Len(groups)
           /\ \A j \in 1..Len(stack) : stack[j].fn # "parseFile" =>
                 Copying(stack[j]) = groups[Calls(j)].taken

\* As long as that is so, a line of a skipped group writes nothing and defines
\* nothing, and no text of a group that C takes is lost.
LinesFollowGroups ==
  [][\A l \in Line : ReadLine(l) /\ plain =>
       /\ ~Live => (out' = NULL /\ chase' = NULL /\ map' = map)
       /\ (Live /\ l.d = "text" /\ l.words # <<>>) => out' # NULL]_vars

\* The line with every word that is a defined symbol replaced by its value.
Replaced(words) ==
  Join([i \in 1..Len(words) |-> IF Defined(words[i]) THEN Lookup(words[i]) ELSE words[i]])

\* No symbol on the line is part of the value of one of them.
ValuesApart(words) ==
  \A i, j \in 1..Len(words) :
    Defined(words[i]) /\ Defined(words[j]) => ~Inside(words[i], Lookup(words[j]))

\* No symbol on the line is part of another word of the line.
WordsApart(words) ==
  \A i, j \in 1..Len(words) :
    Defined(words[i]) /\ words[j] # words[i] => ~Inside(words[i], words[j])

\* parseFile reads an ordinary line.
OrdinaryLine(l) == ReadLine(l) /\ l.d = "text" /\ Top(stack).fn = "parseFile"

\* An ordinary line outside conditionals is written with every defined symbol
\* replaced by its value, although each replacement searches the line from its
\* start again and within words, when no symbol is part of another word or of a
\* value.
SymbolsReplaced ==
  [][\A l \in Line :
       OrdinaryLine(l) /\ ValuesApart(l.words) /\ WordsApart(l.words)
         => out' = Replaced(l.words)]_vars

\* What README.txt:16-18 says of every ordinary line: it is cut into tokens, and
\* the tokens that are in the table are replaced.
TokensReplaced ==
  [][\A l \in Line : OrdinaryLine(l) /\ ValuesApart(l.words) => out' = Replaced(l.words)]_vars

\* Definitions that name one another in a ring of two or more come only from
\* values stored unresolved (-D, #define over several lines), and from symbols that
\* an #undef of another one hid: defineMap never closes a ring of what it sees.
NoRingOfSeveral ==
  ~unresolved /\ ~hidden =>
    \A S \in (SUBSET Key) \ {{}} : \E a \in S : \A b \in S \ {a} : Lookup(a) # b

\* From a word of the value the definitions lead only to one another: a ring.
Ring ==
  /\ chase # NULL
  /\ \E S \in SUBSET Key : /\ \A a \in S : \E b \in S : Lookup(a) = b
                           /\ \E i \in 1..Len(chase.words) : chase.words[i] \in S

\* defineMap comes to an end unless a word of the value leads into a ring, in which
\* the inner loop runs for ever.
DefineEnds == Resolving ~> (~Resolving \/ Ring)
=============================================================================
