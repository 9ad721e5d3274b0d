------------------------------ MODULE TestRunner ------------------------------
(***************************************************************************)
(* The unit-test framework of nx_kit: test programs run one after another  *)
(* on one disk.  A program runs its tests in the order of their            *)
(* registration; a test passes, or ends with an exception, and may ask for *)
(* a directory of its own; code outside of the tests may ask for one too.  *)
(***************************************************************************)
EXTENDS Integers, Sequences, FiniteSets, Functions

CONSTANTS
  TestCount,      (* Tests of a program.                                   *)
  RunCount,       (* Programs that are run.                                *)
  RandomNames,    (* What rand() appends to "nx_kit_test_".                *)
  CommandLines,   (* The arguments that programs are given.                *)
  StatusRange     (* The exit status of a process is modulo this number.   *)

(* The number of failed tests and that of a fatal error fit into the exit  *)
(* status.                                                                 *)
ASSUME TestAssumption ==
  /\ TestCount \in Nat /\ StatusRange \in Nat
  /\ TestCount < StatusRange /\ 64 < StatusRange

Fatal == 64 % StatusRange       (* fatalError()                            *)

VARIABLES
  run,            (* The number of the program.                            *)
  args,           (* Its arguments.                                        *)
  phase,          (* "static", "tests" or "ended".                         *)
  test,           (* The number of the test.                               *)
  isInTest,       (* currentTest() is not null.                            *)
  failedTests,    (* Numbers of tests.                                     *)
  passed,         (* The tests that returned: a history, for the property. *)
  baseTempDir,    (* Its static value, or "".                              *)
  tempDirs,       (* By run and test (0 for the static one): directories.  *)
  disk,           (* The directories that exist.                           *)
  status          (* The exit status of the ended program, or of the last. *)

testVars ==
  <<run, args, phase, test, isInTest, failedTests, passed, baseTempDir,
    tempDirs, disk, status>>

IsHelp == args = <<"-h">>

(* parsedCmdLineArgs(): from argument i on.  What follows "--tmp" is taken *)
(* as the directory whatever it is; "--" ends the arguments.               *)
ParsedCmdLineArgs ==
  LET none == [dir |-> "none", stop |-> FALSE, isValid |-> TRUE]
      invalid == [none EXCEPT !.isValid = FALSE]
      From[i \in 1..Len(args) + 2] ==
        LET Rest(k) == From[k]
            WithDir(name, k) == IF Rest(k).dir = "none" THEN [Rest(k) EXCEPT !.dir = name]
                                ELSE Rest(k)        (* The last one counts. *)
        IN CASE i > Len(args) \/ (i <= Len(args) /\ args[i] = "--") -> none
             [] args[i] = "--tmp" ->
                  IF i = Len(args) \/ args[i + 1] = "" THEN invalid
                  ELSE WithDir(args[i + 1], i + 2)
             [] args[i] = "--tmp=dir" -> WithDir("dir", i + 1)
             [] args[i] = "--tmp=" -> WithDir("", i + 1)
             [] args[i] = "--stop-on-failure" -> [Rest(i + 1) EXCEPT !.stop = TRUE]
             [] OTHER -> invalid
  IN IF IsHelp THEN none ELSE From[1]

TestTypeOK ==
  /\ run \in 1..RunCount /\ args \in CommandLines
  /\ phase \in {"static", "tests", "ended"}
  /\ test \in 1..TestCount + 1 /\ isInTest \in BOOLEAN
  /\ failedTests \subseteq 1..TestCount /\ passed \subseteq 1..TestCount
  /\ DOMAIN tempDirs \subseteq (1..RunCount) \X (0..TestCount)
  /\ status \in 0..StatusRange - 1

TestInit ==
  /\ run = 1 /\ args \in CommandLines
  /\ phase = "static" /\ test = 1 /\ isInTest = FALSE
  /\ failedTests = {} /\ passed = {} /\ baseTempDir = "" /\ tempDirs = <<>>
  /\ disk \in {{}, {<<"dir">>}}
  /\ status = 0

----------------------------------------------------------------------------
(* exit() *)
Exit(code) ==
  /\ phase' = "ended" /\ status' = code % StatusRange
  /\ UNCHANGED <<run, args, test, isInTest, failedTests, passed>>

FatalError == Exit(Fatal) /\ UNCHANGED <<baseTempDir, tempDirs, disk>>

(* mkdir() makes one directory, in one that exists.  A mutant, `MayReuse`,  *)
(* takes one that is there.                                                *)
MayReuse(dirs, dir) == Len(dir) = 1 \/ <<dir[1]>> \in dirs
MayCreate(dirs, dir) == dir \notin dirs /\ (Len(dir) = 1 \/ <<dir[1]>> \in dirs)

(* tempDir(), and staticTempDir() for number 0: a directory in the base,   *)
(* which is made if it has a random name.  Whatever cannot be made is      *)
(* fatal.                                                                  *)
ObtainTempDir(number) ==
  /\ <<run, number>> \notin DOMAIN tempDirs
  /\ IF ~ParsedCmdLineArgs.isValid THEN FatalError
     ELSE \E random \in RandomNames :
       LET isTold == ParsedCmdLineArgs.dir \notin {"none", ""}
           isNew == baseTempDir = "" /\ ~isTold
           base == CASE baseTempDir # "" -> baseTempDir
                     [] isTold -> ParsedCmdLineArgs.dir
                     [] OTHER -> random
           dirs == IF isNew THEN disk \union {<<base>>} ELSE disk
           dir == <<base, number>>
       IN IF isNew => MayCreate(disk, <<base>>)
          THEN /\ baseTempDir' = base
               /\ IF MayCreate(dirs, dir)
                  THEN /\ disk' = dirs \union {dir}
                       /\ tempDirs' = [k \in DOMAIN tempDirs \union {<<run, number>>} |->
                            IF k = <<run, number>> THEN dir ELSE tempDirs[k]]
                       /\ UNCHANGED <<run, args, phase, test, isInTest, failedTests, passed,
                                     status>>
                  ELSE Exit(Fatal) /\ disk' = dirs /\ UNCHANGED tempDirs
          ELSE FatalError

StaticTempDir ==
  /\ phase # "ended" /\ ~isInTest
  /\ ObtainTempDir(0)

TempDir == phase = "tests" /\ isInTest /\ ObtainTempDir(test)

(* tempDir() outside of a test, and staticTempDir() inside of one.         *)
WrongTempDir == phase # "ended" /\ FatalError

----------------------------------------------------------------------------
(* runAllTests()                                                           *)
RunAllTests ==
  /\ phase = "static"
  /\ CASE IsHelp -> Exit(0) /\ UNCHANGED <<baseTempDir, tempDirs, disk>>
       [] ~IsHelp /\ ~ParsedCmdLineArgs.isValid -> FatalError
       [] OTHER ->
            /\ phase' = "tests"
            /\ UNCHANGED <<run, args, test, isInTest, failedTests, passed, baseTempDir,
                           tempDirs, disk, status>>

BeginTest ==
  /\ phase = "tests" /\ ~isInTest /\ test <= TestCount
  /\ isInTest' = TRUE
  /\ UNCHANGED <<run, args, phase, test, failedTests, passed, baseTempDir, tempDirs, disk, status>>

PassTest ==
  /\ isInTest /\ phase = "tests"
  /\ isInTest' = FALSE /\ test' = test + 1 /\ passed' = passed \union {test}
  /\ UNCHANGED <<run, args, phase, failedTests, baseTempDir, tempDirs, disk, status>>

(* Any exception.  A mutant, `ForgetFailure`, does not note the test.      *)
ForgetFailure ==
  /\ isInTest /\ phase = "tests"
  /\ isInTest' = FALSE /\ test' = test + 1
  /\ UNCHANGED <<run, args, phase, failedTests, passed, baseTempDir, tempDirs, disk, status>>

FailTest ==
  /\ isInTest /\ phase = "tests"
  /\ isInTest' = FALSE
  /\ IF ParsedCmdLineArgs.stop
     THEN /\ phase' = "ended" /\ status' = 1
          /\ UNCHANGED <<test, failedTests>>
     ELSE /\ failedTests' = failedTests \union {test} /\ test' = test + 1
          /\ UNCHANGED <<phase, status>>
  /\ UNCHANGED <<run, args, passed, baseTempDir, tempDirs, disk>>

(* The number of failed tests is the result of main().                     *)
EndTests ==
  /\ phase = "tests" /\ ~isInTest /\ test > TestCount
  /\ Exit(Cardinality(failedTests))
  /\ UNCHANGED <<baseTempDir, tempDirs, disk>>

(* Bound: RunCount.                                                        *)
NextProgram ==
  /\ phase = "ended" /\ run < RunCount
  /\ run' = run + 1 /\ args' \in CommandLines
  /\ phase' = "static" /\ test' = 1 /\ isInTest' = FALSE
  /\ failedTests' = {} /\ passed' = {} /\ baseTempDir' = ""
  /\ UNCHANGED <<tempDirs, disk, status>>

TestNext ==
  \/ StaticTempDir \/ TempDir \/ WrongTempDir \/ RunAllTests
  \/ BeginTest \/ PassTest \/ FailTest \/ EndTests \/ NextProgram

TestSpec == TestInit /\ [][TestNext]_testVars

----------------------------------------------------------------------------
(* A program that reports success has run all of its tests and each has    *)
(* passed, unless it was asked for help; and no two tests, of any          *)
(* programs, are given one directory, whatever rand() returns and whatever *)
(* directory the programs are told to use.                                 *)
RunIsSound ==
  /\ phase = "ended" /\ status = 0 /\ ~IsHelp =>
       passed = 1..TestCount
  /\ IsInjective(tempDirs) /\ Range(tempDirs) \subseteq disk

=============================================================================
