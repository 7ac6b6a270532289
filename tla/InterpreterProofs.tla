-------------------------- MODULE InterpreterProofs --------------------------
(***************************************************************************)
(* Proofs about the interpreter: the machine may trust the compiler.  The  *)
(* programs are lists of trees of a set T that is closed under subtrees.   *)
(***************************************************************************)
EXTENDS Interpreter, CompilerProofs, VirtualMachineProofs

\* The programs are made of the trees of T.
Given(T) == AreTrees(T) /\ \A i \in DOMAIN Sources : Sources[i] \in Seq(T)

-----------------------------------------------------------------------------
(* The code.                                                               *)

\* The compiler is between two tasks, and the machine has code that fits.
Agrees(T) == Sound(T) /\ LoadedFits

LEMMA AgreesAtFirst ==
    ASSUME NEW T, Given(T), RunInit
    PROVE  Agrees(T)
<1>1. PICK i \in DOMAIN Sources : CompilerInit(Sources[i])
  BY DEF RunInit
<1>2. AreTrees(T) /\ Sources[i] \in Seq(T)
  BY DEF Given
<1>3. Sound(T)
  BY <1>1, <1>2, Begins
<1>4. LoadedFits
  BY DEF RunInit, Init, LoadedFits, CodeFits
<1> QED  BY <1>3, <1>4 DEF Agrees

LEMMA AgreesStill ==
    ASSUME NEW T, Given(T), Agrees(T), FewUpvalues, [RunNext]_runVars
    PROVE  Agrees(T)'
<1>1. Sound(T) /\ LoadedFits /\ AreTrees(T) /\ ByteSize \in Nat
  BY CompilerAssumption DEF Agrees, Given
<1>2. ASSUME [CompilerNext]_<<todo, cs>> PROVE Sound(T)'
  BY <1>1, <1>2, Steps
<1>3. ASSUME UNCHANGED vars PROVE LoadedFits'
  BY <1>1, <1>3 DEF LoadedFits, CodeFits, vars
<1>4. CASE CompileStep
  BY <1>2, <1>3, <1>4 DEF CompileStep, Agrees
<1>5. CASE ExecuteOutput
  <2>1. ProgramFits(Output)
    BY <1>1, <1>5, OutputFits DEF ExecuteOutput
  <2>2. LoadedFits'
    BY <1>1, <1>5, <2>1, LoadsFitting DEF ExecuteOutput
  <2> QED  BY <1>2, <1>5, <2>2 DEF ExecuteOutput, Agrees
<1>6. CASE MachineStep
  <2>1. LoadedFits'
    BY <1>1, <1>6, StaysFitting DEF MachineStep
  <2> QED  BY <1>2, <1>6, <2>1 DEF MachineStep, Agrees
<1>7. CASE UNCHANGED runVars
  <2>1. UNCHANGED vars /\ UNCHANGED <<todo, cs>>
    BY <1>7 DEF runVars
  <2> QED  BY <1>2, <1>3, <2>1 DEF Agrees
<1> QED  BY <1>4, <1>5, <1>6, <1>7 DEF RunNext

\* The code that runs fits the machine, whatever the programs are: it ends with a
\* return, its jumps stay in it, and what it captures and creates exists.  The
\* condition is that no function has as many upvalues as a byte has values.
THEOREM InterpreterRunsFittingCode ==
    ASSUME NEW T, Given(T)
    PROVE  RunSpec /\ []FewUpvalues => []CodeFits
<1>1. RunInit => Agrees(T)
  BY AgreesAtFirst
<1>2. Agrees(T) /\ FewUpvalues /\ [RunNext]_runVars => Agrees(T)'
  BY AgreesStill
<1>3. Agrees(T) => CodeFits
  BY DEF Agrees, LoadedFits
<1> QED  BY <1>1, <1>2, <1>3, PTL DEF RunSpec

-----------------------------------------------------------------------------
(* The machine.                                                            *)

LEMMA RunKeeps ==
    ASSUME IInv, CodeFits, CodeFits', HeightsFit, HeightsFit', [RunNext]_runVars
    PROVE  IInv'
<1>1. Trusted /\ Trusted'
  BY DEF Trusted, HeightsFit
<1>2. \/ \E p \in {Output} : Execute(p)
      \/ Instruction
      \/ UNCHANGED vars
  BY DEF RunNext, CompileStep, ExecuteOutput, MachineStep, runVars
<1> QED  BY <1>1, <1>2, StepKeeps

\* The invariant of the machine, of the machine in the interpreter: objects refer
\* to objects of the types the code takes them to have, the list of open upvalues
\* is in order, and the frames are linked.
THEOREM InterpreterInvariant ==
    ASSUME NEW T, Given(T)
    PROVE  RunSpec /\ []FewUpvalues /\ []HeightsFit => []IInv
<1>1. RunInit => IInv
  BY InitKeeps DEF RunInit
<1>2. /\ IInv /\ CodeFits /\ CodeFits' /\ HeightsFit /\ HeightsFit'
      /\ [RunNext]_runVars
      => IInv'
  BY RunKeeps
<1> QED  BY <1>1, <1>2, InterpreterRunsFittingCode, PTL DEF RunSpec

\* While the interpreter runs a program, every variable of the machine has values
\* of its type, the open upvalues are the ones that read the stack, from the
\* highest cell to the lowest, and every frame returns behind a call.
THEOREM InterpreterIsSafe ==
    ASSUME NEW T, Given(T)
    PROVE  RunSpec /\ []FewUpvalues /\ []HeightsFit =>
               [](TypeOK /\ OpenUpvaluesOrdered /\ FramesLinked)
<1>1. ASSUME IInv, CodeFits, HeightsFit
      PROVE  TypeOK /\ OpenUpvaluesOrdered /\ FramesLinked
  BY <1>1, MachineTyped, MachineOrdered, MachineLinked DEF Trusted, HeightsFit
<1>2. IInv /\ CodeFits /\ HeightsFit => TypeOK /\ OpenUpvaluesOrdered /\ FramesLinked
  BY <1>1
<1> QED  BY <1>2, InterpreterRunsFittingCode, InterpreterInvariant, PTL

\* Only an assignment to an upvalue changes a cell below the frame that runs.
THEOREM InterpreterKeepsCallers ==
    ASSUME NEW T, Given(T)
    PROVE  RunSpec /\ []FewUpvalues /\ []HeightsFit => CallersUntouched
<1> DEFINE Safe == status = "running" =>
                      \/ Ins[1] = "SetUpvalue"
                      \/ \A c \in 1 .. Frame.slot - 1 : cells'[c] = cells[c]
<1>1. ASSUME IInv, CodeFits, HeightsFit, [RunNext]_runVars PROVE [Safe]_vars
  <2>1. Trusted
    BY <1>1 DEF Trusted, HeightsFit
  <2>2. \/ \E p \in {Output} : Execute(p)
        \/ Instruction
        \/ UNCHANGED vars
    BY <1>1 DEF RunNext, CompileStep, ExecuteOutput, MachineStep, runVars
  <2> QED  BY <1>1, <2>1, <2>2, StepWrites DEF Untouched
<1>2. IInv /\ CodeFits /\ HeightsFit /\ [RunNext]_runVars => [Safe]_vars
  BY <1>1
<1> QED
  BY <1>2, InterpreterRunsFittingCode, InterpreterInvariant, PTL
     DEF RunSpec, CallersUntouched
=============================================================================
