--------------------------- MODULE UserModeProofs ---------------------------
(***************************************************************************)
(* What user mode code keeps for the thread that runs, for any number of   *)
(* threads: user_thread_info is true of that thread, its errno is its own  *)
(* as long as failed calls are not logged (KCFG_LOG_FAILED_ERRNO), and so  *)
(* is its storage for thread local variables until the timer interrupts an *)
(* update of what all threads share.  The shell prompts when its commands  *)
(* have ended, which find their words where it has them.                   *)
(***************************************************************************)
EXTENDS EmulatedTLS, Shell, ThreadsProofs, SequenceTheorems, FiniteSetTheorems

\* user_thread_info as a struct of three fields.
IsInfo(struct) ==
    struct = [id |-> struct.id, config |-> struct.config, err_no |-> struct.err_no]

CopyInv == SafeInv /\ IsInfo(user_thread_info) /\ InfoIsCurrent

\* Of a thread that does not run, its errno is the one that was saved.
SavedIsOwn ==
    kernel \in {"boot", "up"} =>
        \A t \in Tids : (kernel = "up" => t # current) => err_no[t] = own[t]

InfoInv ==
    /\ CopyInv
    /\ DOMAIN err_no = Tids /\ DOMAIN own = Tids
    /\ kernel = "boot" => current = NULL
    /\ SavedIsOwn
    /\ ErrnoIsPerThread

\* Before the boot there is nothing to read.
LEMMA InfoStart == InfoInit => InfoInv
  BY SafeInit DEF InfoInit, InfoInv, CopyInv, IsInfo, SavedIsOwn, InfoIsCurrent,
                  ErrnoIsPerThread, Init

\* Every step is one of Threads.
LEMMA InfoStepsAreSteps ==
    ASSUME NoneRemoved, InfoNext
    PROVE  [Next]_vars
  BY DEF NoneRemoved, InfoNext, Start, Create, ThreadStep, SwitchingCall, OtherSwitch,
         RefreshingCall, FailingCall, FailingSetProperty, ClearErrno, Other,
         Next, UserStep, ThreadEnd, Halted

\* The kernel does not boot twice.
LEMMA BootsOnce ==
    ASSUME [Next]_vars, kernel' = "boot"
    PROVE  UNCHANGED vars
  BY DEF Next, UserStep, ThreadEnd, Halted, vars, Boot, AddThread, Restart,
         YieldAny, YieldTo, ThreadWait, Tick, SetTimer, ThreadWake, Syscall, AtStage,
         ThreadCancel, SetChild, SetPermissions, SetKernelConfig, StackError,
         CleanupThread, SetFinished, YieldAsm, Unreachable, Exit, do_scheduler, SwitchTo

----------------------------------------------------------------------------
\* A step that loads the copy of the thread that runs after it.
LEMMA LoadedIsCurrent ==
    ASSUME SafeInv', NEW e, user_thread_info' = InfoOf(current', e)
    PROVE  CopyInv'
  <1>1. kernel' = "up" => id'[current'] = current'
    BY DEF SafeInv, CurrentIsLive
  <1> QED
    BY <1>1 DEF CopyInv, IsInfo, InfoIsCurrent, InfoOf

\* A step that keeps the thread, the configuration and all of the copy but
\* perhaps its errno.
LEMMA SameThreadIsCurrent ==
    ASSUME CopyInv, SafeInv', UNCHANGED <<current, destroy_on_stack_err, kernel>>,
           \/ user_thread_info' = user_thread_info
           \/ \E e : user_thread_info' = [user_thread_info EXCEPT !.err_no = e]
    PROVE  CopyInv'
  BY DEF CopyInv, IsInfo, InfoIsCurrent

\* A step that ends the kernel.
LEMMA EndIsCurrent ==
    ASSUME CopyInv, SafeInv', kernel' # "up", UNCHANGED user_thread_info
    PROVE  CopyInv'
  BY DEF CopyInv, IsInfo, InfoIsCurrent

\* Each step of the kernel and of the programs is one of these.
LEMMA CopyStep ==
    ASSUME NoneRemoved, CopyInv, [InfoNext]_infoVars
    PROVE  CopyInv'
  <1>1. [Next]_vars
    BY InfoStepsAreSteps DEF infoVars
  <1>2. SafeInv'
    BY <1>1, SafeStep DEF CopyInv
  <1>3. CASE Start
    BY <1>2, <1>3, LoadedIsCurrent DEF Start, k_update_user_thread_info
  <1>4. ASSUME NEW t \in Tids, Create(t)
        PROVE  CopyInv'
    BY <1>2, <1>4, SameThreadIsCurrent DEF Create, AddThread, config
  <1>5. CASE SwitchingCall
    <2>1. CASE kernel' = "up"
      <3>1. k_handle_syscall(current')
        BY <1>5, <2>1 DEF SwitchingCall
      <3>2. \E e : user_thread_info' = InfoOf(current', e)
        BY <3>1 DEF k_handle_syscall, k_update_user_thread_info
      <3> QED
        BY <1>2, <3>2, LoadedIsCurrent
    <2>2. CASE kernel' # "up"
      BY <1>2, <1>5, <2>2, EndIsCurrent DEF SwitchingCall
    <2> QED
      BY <2>1, <2>2
  <1>6. CASE OtherSwitch
    <2>1. CASE kernel' = "up"
      BY <1>2, <1>6, <2>1, LoadedIsCurrent DEF OtherSwitch, k_update_user_thread_info
    <2>2. CASE kernel' # "up"
      BY <1>2, <1>6, <2>2, EndIsCurrent DEF OtherSwitch
    <2> QED
      BY <2>1, <2>2
  <1>7. CASE RefreshingCall
    <2>1. current' = current
      BY <1>7 DEF RefreshingCall, Restart, SetKernelConfig, SetChild
    <2> QED
      BY <1>2, <1>7, <2>1, LoadedIsCurrent DEF RefreshingCall, k_update_user_thread_info
  <1>8. ASSUME NEW e \in Errors, FailingCall(e) \/ FailingSetProperty(e)
        PROVE  CopyInv'
    BY <1>2, <1>8, SameThreadIsCurrent DEF FailingCall, FailingSetProperty, vars
  <1>9. CASE ClearErrno
    BY <1>2, <1>9, SameThreadIsCurrent DEF ClearErrno, vars
  <1>10. CASE Other
    BY <1>2, <1>10, SameThreadIsCurrent
       DEF Other, CleanupThread, SetFinished, SetTimer, ThreadWake, ThreadCancel, Halted,
           config, vars, info
  <1>11. CASE UNCHANGED infoVars
    BY <1>2, <1>11, SameThreadIsCurrent DEF infoVars, info, vars
  <1> QED
    BY <1>3, <1>4, <1>5, <1>6, <1>7, <1>8, <1>9, <1>10, <1>11 DEF InfoNext, ThreadStep

\* get_thread_id and get_kernel_config return what holds, whoever set it.
THEOREM CopyIsCurrent ==
    ASSUME NoneRemoved
    PROVE  InfoSpec => []InfoIsCurrent
  <1>1. InfoInit => CopyInv
    BY InfoStart DEF InfoInv
  <1>2. CopyInv /\ [InfoNext]_infoVars => CopyInv'
    BY CopyStep
  <1>3. CopyInv => InfoIsCurrent
    BY DEF CopyInv
  <1> QED
    BY <1>1, <1>2, <1>3, PTL DEF InfoSpec

----------------------------------------------------------------------------
\* A step from the current thread to any thread n that saves errno and loads
\* the copy of n.
LEMMA UpdateKeeps ==
    ASSUME InfoInv, CopyInv', kernel = "up", kernel' = "up", UNCHANGED own,
           k_update_user_thread_info(current')
    PROVE  InfoInv'
  <1> USE DEF k_update_user_thread_info
  <1>1. current \in Tids /\ current' \in Tids /\ id'[current'] = current'
    BY DEF InfoInv, CopyInv, SafeInv, TypeOK, CurrentIsLive
  <1>2. err_no' = [err_no EXCEPT ![current] = own[current]]
    BY <1>1 DEF Saved, InfoInv, ErrnoIsPerThread, Tids, NULL
  <1>3. \A t \in Tids : err_no'[t] = own'[t]
    BY <1>1, <1>2 DEF InfoInv, SavedIsOwn
  <1>4. user_thread_info' = [id |-> current', config |-> destroy_on_stack_err',
                             err_no |-> own'[current']]
    <2>1. user_thread_info' = InfoOf(current', err_no'[current'])
      OBVIOUS
    <2> QED
      BY <1>1, <1>3, <2>1 DEF InfoOf
  <1>5. SavedIsOwn'
    BY <1>3 DEF SavedIsOwn
  <1>6. ErrnoIsPerThread'
    BY <1>4 DEF ErrnoIsPerThread, errno
  <1> QED
    BY <1>2, <1>5, <1>6 DEF InfoInv

\* A step that ends the kernel.
LEMMA EndKeeps ==
    ASSUME InfoInv, CopyInv', kernel' \notin {"boot", "up"}, UNCHANGED info
    PROVE  InfoInv'
  BY DEF info, InfoInv, SavedIsOwn, ErrnoIsPerThread

\* A step that leaves the processor and the configuration as they are.
LEMMA SameThreadKeeps ==
    ASSUME InfoInv, CopyInv', UNCHANGED <<current, destroy_on_stack_err, kernel, info>>
    PROVE  InfoInv'
  <1>1. UNCHANGED <<err_no, own, user_thread_info, current, kernel, destroy_on_stack_err>>
    BY DEF info
  <1>2. SavedIsOwn'
    BY <1>1 DEF InfoInv, SavedIsOwn
  <1>3. ErrnoIsPerThread'
    BY <1>1 DEF InfoInv, ErrnoIsPerThread, errno
  <1> QED
    BY <1>1, <1>2, <1>3 DEF InfoInv

\* The current thread, or a call of its own, sets errno to e.
LEMMA SetKeeps ==
    ASSUME InfoInv, CopyInv', kernel = "up", UNCHANGED vars, NEW e,
           user_thread_info' = [user_thread_info EXCEPT !.err_no = e],
           own' = [own EXCEPT ![current] = e],
           err_no' = err_no \/ err_no' = [err_no EXCEPT ![current] = e]
    PROVE  InfoInv'
  <1>1. current \in Tids
    BY DEF InfoInv, CopyInv, SafeInv, TypeOK, Tids, NULL
  <1>2. user_thread_info' = [id |-> user_thread_info.id, config |-> user_thread_info.config,
                             err_no |-> e]
    BY DEF InfoInv, CopyInv, IsInfo
  <1>3. SavedIsOwn'
    BY DEF InfoInv, SavedIsOwn, vars
  <1>4. ErrnoIsPerThread'
    BY <1>1, <1>2 DEF InfoInv, ErrnoIsPerThread, errno, vars
  <1> QED
    BY <1>2, <1>3, <1>4 DEF InfoInv, vars

\* Each step of the kernel and of the programs is one of these.
LEMMA InfoStep ==
    ASSUME NoneRemoved, ~LogsErrno, InfoInv, [InfoNext]_infoVars
    PROVE  InfoInv'
  <1>1. [Next]_vars
    BY InfoStepsAreSteps DEF infoVars
  <1>2. CopyInv'
    BY CopyStep DEF InfoInv
  <1>3. kernel = "up" => current \in Tids
    BY DEF InfoInv, CopyInv, SafeInv, TypeOK, Tids, NULL
  <1>4. CASE Start
    <2>1. PICK n : n = current'
      OBVIOUS
    <2>2. err_no' = err_no /\ own' = own /\ user_thread_info' = InfoOf(n, err_no[n])
      BY <1>4, <2>1 DEF Start, Boot, Saved, k_update_user_thread_info, InfoInv
    <2>3. kernel' \in {"up", "exit0"} /\ kernel = "boot"
      BY <1>4 DEF Start, Boot, do_scheduler, SwitchTo
    <2>4. kernel' = "up" => n \in Tids /\ id'[n] = n
      BY <1>2, <2>1 DEF CopyInv, SafeInv, TypeOK, CurrentIsLive, Tids, NULL
    <2>5. SavedIsOwn'
      BY <2>2, <2>3 DEF InfoInv, SavedIsOwn
    <2>6. ErrnoIsPerThread'
      BY <2>1, <2>2, <2>3, <2>4 DEF InfoInv, SavedIsOwn, ErrnoIsPerThread, InfoOf,
             errno
    <2> QED
      BY <1>2, <2>2, <2>3, <2>5, <2>6 DEF InfoInv
  <1>5. ASSUME NEW t \in Tids, Create(t)
        PROVE  InfoInv'
    <2>1. UNCHANGED <<current, kernel, destroy_on_stack_err, user_thread_info>> /\ kernel = "up"
      BY <1>5 DEF Create, AddThread, Syscall, AtStage, config
    <2>2. t # current
      BY <1>3, <1>5, <2>1
         DEF Create, FirstFreeSlot, SlotIsFree, AddThread, Syscall, AtStage, InfoInv, CopyInv,
             SafeInv, CurrentIsLive, Tids, INVALID_THREAD
    <2>3. err_no' = [err_no EXCEPT ![t] = 0] /\ own' = [own EXCEPT ![t] = 0]
      BY <1>5 DEF Create
    <2>4. SavedIsOwn'
      BY <2>1, <2>3 DEF InfoInv, SavedIsOwn
    <2>5. ErrnoIsPerThread'
      BY <2>1, <2>2, <2>3 DEF InfoInv, ErrnoIsPerThread, errno
    <2> QED
      BY <1>2, <2>1, <2>3, <2>4, <2>5 DEF InfoInv
  <1>6. CASE SwitchingCall
    <2>1. kernel = "up" /\ kernel' # "boot"
      BY <1>6, <1>1, BootsOnce
         DEF SwitchingCall, YieldAny, ThreadWait, StackError, YieldTo, ThreadCancel, Syscall,
             AtStage, vars
    <2>2. CASE kernel' = "up"
      BY <1>2, <1>6, <2>1, <2>2, UpdateKeeps DEF SwitchingCall, k_handle_syscall
    <2>3. CASE kernel' # "up"
      BY <1>2, <1>6, <2>1, <2>3, EndKeeps DEF SwitchingCall, info
    <2> QED
      BY <2>2, <2>3
  <1>7. CASE OtherSwitch
    <2>1. kernel = "up" /\ kernel' # "boot"
      BY <1>7, <1>1, BootsOnce DEF OtherSwitch, Tick, YieldAsm, AtStage, vars
    <2>2. CASE kernel' = "up"
      BY <1>2, <1>7, <2>1, <2>2, UpdateKeeps DEF OtherSwitch
    <2>3. CASE kernel' # "up"
      BY <1>2, <1>7, <2>1, <2>3, EndKeeps DEF OtherSwitch, info
    <2> QED
      BY <2>2, <2>3
  <1>8. CASE RefreshingCall
    <2>1. kernel = "up" /\ kernel' = "up" /\ current' = current
      BY <1>8 DEF RefreshingCall, Restart, SetKernelConfig, SetChild, Syscall, AtStage
    <2> QED
      BY <1>2, <1>8, <2>1, UpdateKeeps DEF RefreshingCall
  <1>9. ASSUME NEW e \in Errors, FailingCall(e) PROVE InfoInv'
    BY <1>2, <1>9, SetKeeps DEF FailingCall, AtStage
  <1>10. ASSUME NEW e \in Errors, FailingSetProperty(e) PROVE InfoInv'
    BY <1>2, <1>10, SetKeeps DEF FailingSetProperty, AtStage
  <1>11. CASE ClearErrno
    BY <1>2, <1>11, SetKeeps DEF ClearErrno, AtStage
  <1>12. CASE Other
    BY <1>2, <1>12, SameThreadKeeps
       DEF Other, CleanupThread, SetFinished, SetTimer, ThreadWake, ThreadCancel, Halted,
           config, vars
  <1>13. CASE UNCHANGED infoVars
    BY <1>2, <1>13, SameThreadKeeps DEF infoVars, vars
  <1> QED
    BY <1>4, <1>5, <1>6, <1>7, <1>8, <1>9, <1>10, <1>11, <1>12, <1>13 DEF InfoNext, ThreadStep

\* A thread reads the errno that it or a call of its own set last.
THEOREM ErrnoIsItsOwn ==
    ASSUME NoneRemoved, ~LogsErrno
    PROVE  InfoSpec => []ErrnoIsPerThread
  <1>1. InfoInv /\ [InfoNext]_infoVars => InfoInv'
    BY InfoStep
  <1>2. InfoInv => ErrnoIsPerThread
    BY DEF InfoInv
  <1> QED
    BY InfoStart, <1>1, <1>2, PTL DEF InfoSpec

----------------------------------------------------------------------------
(* Thread local variables, until two updates of one kind meet.  What the   *)
(* threads have read, in an update or out of it, still holds.              *)

Places == {"outside", "read_count", "write_count", "write_index", "check_count",
           "look_up", "read_space", "write_address", "write_space", "use"}

TLSTypeOK ==
    /\ index \in [Vars -> Nat]
    /\ emutls_var_count \in Nat
    /\ alloc_ptr \in Nat
    /\ address_arrays \in [Tids -> [1 .. MAX_TLS_VARS -> Nat]]
    /\ DOMAIN access = Tids
    /\ \A t \in Tids : access[t] # Outside =>
           /\ access[t] = [at |-> access[t].at, var |-> access[t].var,
                           local |-> access[t].local]
           /\ access[t].at \in Places \ {"outside"}
           /\ access[t].var \in Vars
           /\ access[t].local \in Nat

\* No two threads are in an update of the same kind.
OneUpdate ==
    \A t, u \in Tids :
        /\ access[t].at \in IndexUpdates /\ access[u].at \in IndexUpdates => t = u
        /\ access[t].at \in StorageUpdates /\ access[u].at \in StorageUpdates => t = u

\* Every index but the one that is about to be written is counted, and no two
\* variables have the same.
IndexesDiffer ==
    /\ \A v \in Vars : index[v] <= emutls_var_count
    /\ \A v, w \in Vars : index[v] = index[w] => index[v] = 0 \/ v = w

\* All addresses but the one that is about to be counted are counted, and no
\* two places of the table hold the same.
AddressesCounted ==
    \A t \in Tids : \A i \in 1 .. MAX_TLS_VARS :
        \/ address_arrays[t][i] <= alloc_ptr
        \/ access[t].at = "write_space" /\ address_arrays[t][i] <= alloc_ptr + 1

AddressesDiffer ==
    \A t, u \in Tids : \A i, j \in 1 .. MAX_TLS_VARS :
        address_arrays[t][i] = address_arrays[u][j] =>
            address_arrays[t][i] = NoAddress \/ (t = u /\ i = j)

HasAddress(t, v) ==
    index[v] \in 1 .. MAX_TLS_VARS /\ address_arrays[t][index[v]] # NoAddress

\* What thread t, at a place of an access to v, has read, its local l, holds.
Holds(t, place, v, l) ==
    /\ place \in {"read_count", "write_count", "write_index"} => index[v] = 0
    /\ place = "write_count" => l = emutls_var_count
    /\ place = "write_index" => l + 1 = emutls_var_count /\ \A w \in Vars : index[w] <= l
    /\ place = "check_count" => index[v] # 0
    /\ place = "look_up" => l = index[v] /\ l # 0
    /\ place \in {"read_space", "write_address"} => index[v] \in 1 .. MAX_TLS_VARS
    /\ place \in {"write_address", "write_space"} => l = alloc_ptr
    /\ place \in {"write_space", "use"} => HasAddress(t, v)

LocalsHold ==
    \A t \in Tids : access[t] # Outside =>
        Holds(t, access[t].at, access[t].var, access[t].local)

TableInv ==
    /\ TLSTypeOK
    /\ OneUpdate
    /\ IndexesDiffer
    /\ AddressesCounted
    /\ AddressesDiffer
    /\ LocalsHold

TLSInv == CopyInv /\ (~disturbed => TableInv)

\* Nothing is in use at first.
LEMMA TLSStart == TLSInit => TLSInv
  <1> SUFFICES ASSUME TLSInit PROVE TLSInv
    OBVIOUS
  <1>1. CopyInv
    BY InfoStart DEF TLSInit, InfoInv
  <1>2. TLSTypeOK
    BY DEF TLSInit, TLSTypeOK, NoAddress
  <1>3. emutls_var_count = 0 /\ alloc_ptr = 0 /\ \A v \in Vars : index[v] = 0
    BY DEF TLSInit
  <1>4. \A t \in Tids : access[t] = Outside
    BY DEF TLSInit
  <1>5. \A t \in Tids : \A i \in 1 .. MAX_TLS_VARS : address_arrays[t][i] = 0
    BY DEF TLSInit, NoAddress
  <1>6. OneUpdate /\ LocalsHold
    BY <1>4 DEF OneUpdate, LocalsHold, Outside, IndexUpdates, StorageUpdates
  <1>7. IndexesDiffer
    BY <1>3 DEF IndexesDiffer
  <1>8. AddressesCounted
    <2>1. \A t \in Tids : \A i \in 1 .. MAX_TLS_VARS : address_arrays[t][i] <= alloc_ptr
      BY <1>3, <1>5
    <2> QED
      BY <2>1 DEF AddressesCounted
  <1>9. AddressesDiffer
    BY <1>5 DEF AddressesDiffer, NoAddress
  <1> QED
    BY <1>1, <1>2, <1>6, <1>7, <1>8, <1>9 DEF TLSInv, TableInv

----------------------------------------------------------------------------
\* An index past the end of the table ends what is modelled.
LEMMA PastTheRowCopies ==
    ASSUME CopyInv, PastTheRow, UNCHANGED info, kernel = "up"
    PROVE  CopyInv'
  <1>1. SafeInv'
    BY DEF CopyInv, SafeInv, PastTheRow, TypeOK, OnlyCurrentRuns, CurrentIsLive, config, family
  <1>2. UNCHANGED user_thread_info /\ kernel' # "up"
    BY DEF info, PastTheRow
  <1> QED
    BY <1>1, <1>2, EndIsCurrent

\* And so does an exit from within an access, by one of the checks.
LEMMA ExitCopies ==
    ASSUME CopyInv, Exit("exit1"), UNCHANGED info
    PROVE  CopyInv'
  <1>1. [Next]_vars
    BY DEF Next, UserStep
  <1>2. SafeInv'
    BY <1>1, SafeStep DEF CopyInv
  <1>3. UNCHANGED user_thread_info /\ kernel' # "up"
    BY DEF info, Exit
  <1> QED
    BY <1>2, <1>3, EndIsCurrent

\* user_thread_info is right after every step, in an access or not.
LEMMA TLSCopyStep ==
    ASSUME NoneRemoved, CopyInv, [TLSNext]_tlsVars
    PROVE  CopyInv'
  <1>1. CASE UNCHANGED infoVars
    BY <1>1, CopyStep
  <1>2. CASE CheckCount \/ ReadSpace
    <2>1. CASE Exit("exit1")
      BY <1>2, <2>1, ExitCopies DEF CheckCount, ReadSpace
    <2>2. CASE UNCHANGED vars
      BY <1>1, <1>2, <2>2 DEF CheckCount, ReadSpace, infoVars
    <2> QED
      BY <1>2, <2>1, <2>2 DEF CheckCount, ReadSpace
  <1>3. CASE LookUp \/ WriteAddress
    <2>1. CASE PastTheRow
      BY <1>3, <2>1, PastTheRowCopies DEF LookUp, WriteAddress, At, AtStage
    <2>2. CASE ~PastTheRow
      BY <1>1, <1>3, <2>2 DEF LookUp, WriteAddress, infoVars
    <2> QED
      BY <2>1, <2>2
  <1>4. CASE (\E t \in Tids : TLSCreate(t)) \/ TLSOther
    BY <1>4, CopyStep DEF TLSCreate, TLSOther, InfoNext
  <1>5. CASE (\E v \in Vars : GetIndex(v)) \/ ReadCount \/ WriteCount \/ WriteIndex
    BY <1>1, <1>5 DEF GetIndex, ReadCount, WriteCount, WriteIndex
  <1>6. CASE WriteSpace \/ Use
    BY <1>1, <1>6 DEF WriteSpace, Use
  <1> QED
    BY <1>1, <1>2, <1>3, <1>4, <1>5, <1>6 DEF TLSNext, TLSStep, tlsVars

----------------------------------------------------------------------------
\* Two fields of a struct are assigned.
LEMMA TwoFields ==
    ASSUME NEW a, NEW b, NEW place, NEW value,
           a = [at |-> a.at, var |-> a.var, local |-> a.local],
           b = [[a EXCEPT !.at = place] EXCEPT !.local = value]
    PROVE  b = [at |-> place, var |-> a.var, local |-> value]
  OBVIOUS

\* GoTo leaves everything but the current thread's place and its local.
LEMMA GoToLemma ==
    ASSUME TLSTypeOK, current \in Tids, access[current] # Outside, NEW place, NEW value,
           GoTo(place, value)
    PROVE  access' = [access EXCEPT ![current] =
                         [at |-> place, var |-> access[current].var, local |-> value]]
  <1>1. PICK a : a = access[current]
    OBVIOUS
  <1>2. PICK b : b = [[a EXCEPT !.at = place] EXCEPT !.local = value]
    OBVIOUS
  <1>3. a = [at |-> a.at, var |-> a.var, local |-> a.local]
    BY <1>1 DEF TLSTypeOK
  <1>4. access' = [access EXCEPT ![current] = b]
    BY <1>1, <1>2 DEF GoTo, TLSTypeOK
  <1> QED
    BY <1>1, <1>2, <1>3, <1>4, TwoFields

\* The table of addresses stays as it is.
LEMMA AddressesStay ==
    ASSUME AddressesDiffer, address_arrays' = address_arrays
    PROVE  AddressesDiffer'
  BY DEF AddressesDiffer, NoAddress

\* While a thread reads alloc_ptr, no address is about to be counted.
LEMMA AllAreCounted ==
    ASSUME TableInv, current \in Tids, access[current].at = "write_address"
    PROVE  \A t \in Tids : \A i \in 1 .. MAX_TLS_VARS : address_arrays[t][i] <= alloc_ptr
  <1>1. \A t \in Tids : access[t].at # "write_space"
    BY DEF TableInv, OneUpdate, StorageUpdates
  <1> QED
    BY <1>1 DEF TableInv, AddressesCounted

\* Indexes and addresses once given do not change.
TableGrows ==
    /\ \A v \in Vars : index[v] # 0 => index'[v] = index[v]
    /\ \A t \in Tids : \A i \in 1 .. MAX_TLS_VARS :
           address_arrays[t][i] # NoAddress => address_arrays'[t][i] # NoAddress

\* Then what a thread has read holds, in an update if this is no step of one of
\* the same kind.
LEMMA StillHolds ==
    ASSUME TableGrows, NEW t \in Tids, NEW place \in Places, NEW v \in Vars, NEW l \in Nat,
           place \in IndexUpdates => index' = index /\ emutls_var_count' = emutls_var_count,
           place \in StorageUpdates => alloc_ptr' = alloc_ptr,
           Holds(t, place, v, l)
    PROVE  Holds(t, place, v, l)'
  <1>1. ASSUME index[v] \in 1 .. MAX_TLS_VARS PROVE index'[v] = index[v]
    <2>1. index[v] # 0
      BY <1>1
    <2> QED
      BY <2>1 DEF TableGrows
  <1>2. ASSUME HasAddress(t, v) PROVE HasAddress(t, v)'
    BY <1>1, <1>2 DEF HasAddress, TableGrows, NoAddress
  <1>3. CASE place = "outside"
    BY <1>3 DEF Holds
  <1>4. CASE place \in IndexUpdates
    BY <1>4 DEF Holds, IndexUpdates
  <1>5. CASE place = "check_count" \/ place = "look_up"
    BY <1>5 DEF Holds, TableGrows
  <1>6. CASE place = "read_space" \/ place = "use"
    BY <1>1, <1>2, <1>6 DEF Holds
  <1>7. CASE place \in StorageUpdates
    BY <1>1, <1>2, <1>7 DEF Holds, StorageUpdates
  <1> QED
    BY <1>3, <1>4, <1>5, <1>6, <1>7 DEF Places, IndexUpdates, StorageUpdates

\* A step changes nothing that another thread has read in an update.
SparesUpdates(t) ==
    /\ access[t].at \in IndexUpdates => index' = index /\ emutls_var_count' = emutls_var_count
    /\ access[t].at \in StorageUpdates => alloc_ptr' = alloc_ptr

\* A step of the current thread to another place of an access: what is left to
\* show is what it does to the table, and that its own locals hold after it.
LEMMA AccessStep ==
    ASSUME TableInv, OneUpdate', current \in Tids, UNCHANGED infoVars,
           NEW place \in Places \ {"outside"}, NEW v \in Vars, NEW l \in Nat,
           access' = [access EXCEPT ![current] = [at |-> place, var |-> v, local |-> l]],
           index' \in [Vars -> Nat], emutls_var_count' \in Nat, alloc_ptr' \in Nat,
           address_arrays' \in [Tids -> [1 .. MAX_TLS_VARS -> Nat]],
           IndexesDiffer', AddressesDiffer', TableGrows,
           \A t \in Tids \ {current} : SparesUpdates(t),
           \A t \in Tids : \A i \in 1 .. MAX_TLS_VARS :
               \/ address_arrays'[t][i] <= alloc_ptr'
               \/ /\ IF t = current THEN place = "write_space" ELSE access[t].at = "write_space"
                  /\ address_arrays'[t][i] <= alloc_ptr' + 1,
           Holds(current, place, v, l)'
    PROVE  TableInv'
  <1>1. PICK new : new = [at |-> place, var |-> v, local |-> l]
    OBVIOUS
  <1>2. new.at = place /\ new.var = v /\ new.local = l
    BY <1>1
  <1>3. new # Outside /\ new = [at |-> new.at, var |-> new.var, local |-> new.local]
    BY <1>1, <1>2 DEF Outside
  <1>4. access'[current] = new /\ \A t \in Tids \ {current} : access'[t] = access[t]
    BY <1>1 DEF TableInv, TLSTypeOK
  <1>5. current' = current
    BY DEF infoVars, vars
  <1>6. TLSTypeOK'
    <2>1. DOMAIN access' = Tids
      BY DEF TableInv, TLSTypeOK
    <2>2. ASSUME NEW t \in Tids, access'[t] # Outside
          PROVE  /\ access'[t] = [at |-> access'[t].at, var |-> access'[t].var,
                                  local |-> access'[t].local]
                 /\ access'[t].at \in Places \ {"outside"}
                 /\ access'[t].var \in Vars
                 /\ access'[t].local \in Nat
      <3>1. CASE t = current
        BY <1>2, <1>3, <1>4, <3>1
      <3>2. CASE t # current
        BY <1>4, <2>2, <3>2 DEF TableInv, TLSTypeOK
      <3> QED
        BY <3>1, <3>2
    <2> QED
      BY <2>1, <2>2 DEF TLSTypeOK
  <1>7. AddressesCounted'
    BY <1>2, <1>4 DEF AddressesCounted
  <1>8. LocalsHold'
    <2>1. Holds(current, access[current].at, access[current].var, access[current].local)'
      BY <1>2, <1>4, <1>5
    <2>2. ASSUME NEW t \in Tids \ {current}, access'[t] # Outside
          PROVE  Holds(t, access[t].at, access[t].var, access[t].local)'
      <3>1. PICK p, w, k : p = access[t].at /\ w = access[t].var /\ k = access[t].local
        OBVIOUS
      <3>2. p \in Places /\ w \in Vars /\ k \in Nat /\ Holds(t, p, w, k)
        BY <1>4, <2>2, <3>1 DEF TableInv, TLSTypeOK, LocalsHold
      <3>3. /\ p \in IndexUpdates => index' = index /\ emutls_var_count' = emutls_var_count
            /\ p \in StorageUpdates => alloc_ptr' = alloc_ptr
        BY <3>1 DEF SparesUpdates
      <3>4. Holds(t, p, w, k)'
        BY <3>2, <3>3, StillHolds
      <3> QED
        BY <1>4, <3>1, <3>4
    <2> QED
      BY <1>5, <2>1, <2>2 DEF LocalsHold
  <1> QED
    BY <1>6, <1>7, <1>8 DEF TableInv

\* A step that writes no address and counts none.
LEMMA StayCounted ==
    ASSUME TableInv, access[current].at # "write_space",
           address_arrays' = address_arrays, alloc_ptr' = alloc_ptr
    PROVE  \A t \in Tids : \A i \in 1 .. MAX_TLS_VARS :
               \/ address_arrays'[t][i] <= alloc_ptr'
               \/ /\ t # current /\ access[t].at = "write_space"
                  /\ address_arrays'[t][i] <= alloc_ptr' + 1
  BY DEF TableInv, AddressesCounted

\* The steps that only read the table.
LEMMA ReadingStep ==
    ASSUME TableInv, OneUpdate', current \in Tids, UNCHANGED <<infoVars, table>>,
           access[current].at # "write_space",
           NEW place \in {"read_count", "write_count", "look_up", "read_space",
                          "write_address", "use"},
           NEW v \in Vars, NEW l \in Nat,
           access' = [access EXCEPT ![current] = [at |-> place, var |-> v, local |-> l]],
           Holds(current, place, v, l)
    PROVE  TableInv'
  <1>1. /\ UNCHANGED infoVars /\ index' = index /\ emutls_var_count' = emutls_var_count
        /\ alloc_ptr' = alloc_ptr /\ address_arrays' = address_arrays /\ current' = current
    BY DEF table, infoVars, vars
  <1>2. IndexesDiffer'
    BY <1>1 DEF TableInv, IndexesDiffer
  <1>3. AddressesDiffer' /\ TableGrows
    BY <1>1, AddressesStay DEF TableInv, TableGrows
  <1>4. \A t \in Tids : \A i \in 1 .. MAX_TLS_VARS :
            \/ address_arrays'[t][i] <= alloc_ptr'
            \/ /\ t # current /\ access[t].at = "write_space"
               /\ address_arrays'[t][i] <= alloc_ptr' + 1
    BY <1>1, StayCounted
  <1>5. /\ index' \in [Vars -> Nat] /\ emutls_var_count' \in Nat /\ alloc_ptr' \in Nat
        /\ address_arrays' \in [Tids -> [1 .. MAX_TLS_VARS -> Nat]]
    BY <1>1 DEF TableInv, TLSTypeOK
  <1>6. place \in Places \ {"outside"}
    BY DEF Places
  <1>7. Holds(current, place, v, l)'
    BY <1>1 DEF Holds, HasAddress, NoAddress
  <1>8. \A t \in Tids \ {current} : SparesUpdates(t)
    BY <1>1 DEF SparesUpdates
  <1> QED
    BY <1>1, <1>2, <1>3, <1>4, <1>5, <1>6, <1>7, <1>8, AccessStep

\* The current thread is in an access, at a place other than the first.
LEMMA InAccess ==
    ASSUME CopyInv, TableInv, NEW place, place # "outside", At(place)
    PROVE  /\ kernel = "up" /\ current \in Tids
           /\ access[current] # Outside /\ access[current].at = place
           /\ access[current].var = var /\ access[current].local = local
           /\ var \in Vars /\ local \in Nat /\ user_thread_info.id = current
           /\ Holds(current, place, var, local)
  <1>1. kernel = "up" /\ access[current].at = place
    BY DEF At, AtStage
  <1>2. current \in Tids
    BY <1>1 DEF CopyInv, SafeInv, TypeOK, Tids, NULL
  <1>3. access[current] # Outside
    BY <1>1 DEF Outside
  <1> QED
    BY <1>1, <1>2, <1>3 DEF TableInv, TLSTypeOK, LocalsHold, CopyInv, InfoIsCurrent, var, local

\* emutls_get_index of a variable with or without an index.
LEMMA GetIndexKeeps == ASSUME CopyInv, TableInv, OneUpdate', NEW v \in Vars, GetIndex(v) PROVE TableInv'
  <1>1. kernel = "up" /\ access[current].at = "outside"
    BY DEF GetIndex, At, AtStage
  <1>2. current \in Tids
    BY <1>1 DEF CopyInv, SafeInv, TypeOK, Tids, NULL
  <1>3. UNCHANGED <<infoVars, table>>
    BY DEF GetIndex
  <1>4. PICK place, l : place = (IF index[v] = 0 THEN "read_count" ELSE "look_up") /\ l = index[v]
    OBVIOUS
  <1>5. access' = [access EXCEPT ![current] = [at |-> place, var |-> v, local |-> l]]
    BY <1>4 DEF GetIndex
  <1>6. Holds(current, place, v, l)
    BY <1>4 DEF Holds
  <1>7. /\ place \in {"read_count", "write_count", "look_up", "read_space", "write_address", "use"}
        /\ l \in Nat /\ access[current].at # "write_space"
    BY <1>1, <1>4 DEF TableInv, TLSTypeOK
  <1> QED
    BY <1>1, <1>2, <1>3, <1>5, <1>6, <1>7, ReadingStep

\* A step of an access that goes to another place and only reads the table.
LEMMA GoToReads ==
    ASSUME CopyInv, TableInv, OneUpdate', NEW from \in Places \ {"outside", "write_space"},
           At(from), UNCHANGED <<infoVars, table>>,
           NEW place \in {"read_count", "write_count", "look_up", "read_space",
                          "write_address", "use"},
           NEW l \in Nat,
           GoTo(place, l),
           Holds(current, place, var, l)
    PROVE  TableInv'
  <1>1. /\ kernel = "up" /\ access[current] # Outside /\ access[current].at = from
        /\ access[current].var = var /\ var \in Vars /\ current \in Tids
    BY InAccess
  <1>2. access' = [access EXCEPT ![current] = [at |-> place, var |-> var, local |-> l]]
    BY <1>1, GoToLemma DEF TableInv
  <1> QED
    BY <1>1, <1>2, ReadingStep

\* The count is read.
LEMMA ReadCountKeeps == ASSUME CopyInv, TableInv, OneUpdate', ReadCount PROVE TableInv'
  <1>1. PICK from, place : from = "read_count" /\ place = "write_count"
    OBVIOUS
  <1>2. At(from) /\ GoTo(place, emutls_var_count) /\ UNCHANGED <<infoVars, table>>
    BY <1>1 DEF ReadCount
  <1>3. /\ from \in Places \ {"outside", "write_space"}
        /\ place \in {"read_count", "write_count", "look_up", "read_space", "write_address", "use"}
    BY <1>1 DEF Places
  <1>4. Holds(current, place, var, emutls_var_count)
    BY <1>1, <1>2, InAccess DEF Holds
  <1>5. emutls_var_count \in Nat
    BY DEF TableInv, TLSTypeOK
  <1> QED
    BY <1>2, <1>3, <1>4, <1>5, GoToReads

\* The check of the count, after which the index is read again.
LEMMA CheckCountKeeps == ASSUME CopyInv, TableInv, OneUpdate', CheckCount, UNCHANGED vars PROVE TableInv'
  <1>1. PICK from, place, l : from = "check_count" /\ place = "look_up" /\ l = index[var]
    OBVIOUS
  <1>2. At(from) /\ UNCHANGED <<infoVars, table>> /\ kernel' = "up"
    BY <1>1 DEF CheckCount, infoVars, At, AtStage, vars
  <1>3. GoTo(place, l)
    BY <1>1, <1>2 DEF CheckCount, Exit
  <1>4. var \in Vars /\ Holds(current, from, var, local)
    BY <1>1, <1>2, InAccess
  <1>5. Holds(current, place, var, l) /\ l \in Nat
    BY <1>1, <1>4 DEF Holds, TableInv, TLSTypeOK
  <1>6. /\ from \in Places \ {"outside", "write_space"}
        /\ place \in {"read_count", "write_count", "look_up", "read_space", "write_address", "use"}
    BY <1>1 DEF Places
  <1> QED
    BY <1>2, <1>3, <1>5, <1>6, GoToReads

\* The address of the variable is looked up.
LEMMA LookUpKeeps == ASSUME CopyInv, TableInv, OneUpdate', LookUp, UNCHANGED vars PROVE TableInv'
  <1>1. PICK from, l, i : from = "look_up" /\ l = 0 /\ i = local
    OBVIOUS
  <1>2. At(from) /\ kernel = "up" /\ kernel' = "up"
    BY <1>1 DEF LookUp, At, AtStage, vars
  <1>3. ~(i > MAX_TLS_VARS) /\ UNCHANGED <<infoVars, table>>
    BY <1>1, <1>2 DEF LookUp, PastTheRow, infoVars
  <1>4. /\ var \in Vars /\ current \in Tids /\ user_thread_info.id = current
        /\ i \in Nat /\ i = index[var] /\ i # 0
    BY <1>1, <1>2, InAccess DEF Holds
  <1>5. i \in 1 .. MAX_TLS_VARS
    BY <1>3, <1>4, TLSAssumption
  <1>6. PICK place :
            place = IF address_arrays[current][i] = NoAddress THEN "read_space" ELSE "use"
    OBVIOUS
  <1>7. GoTo(place, l)
    BY <1>1, <1>3, <1>4, <1>6 DEF LookUp, row
  <1>8. Holds(current, place, var, l)
    BY <1>4, <1>5, <1>6 DEF Holds, HasAddress
  <1>9. /\ from \in Places \ {"outside", "write_space"} /\ l \in Nat
        /\ place \in {"read_count", "write_count", "look_up", "read_space", "write_address", "use"}
    BY <1>1, <1>6 DEF Places
  <1> QED
    BY <1>2, <1>3, <1>7, <1>8, <1>9, GoToReads

\* alloc_ptr is read.
LEMMA ReadSpaceKeeps == ASSUME CopyInv, TableInv, OneUpdate', ReadSpace, UNCHANGED vars PROVE TableInv'
  <1>1. PICK from, place : from = "read_space" /\ place = "write_address"
    OBVIOUS
  <1>2. At(from) /\ UNCHANGED <<infoVars, table>> /\ kernel' = "up"
    BY <1>1 DEF ReadSpace, infoVars, At, AtStage, vars
  <1>3. GoTo(place, alloc_ptr)
    BY <1>1, <1>2 DEF ReadSpace, Exit
  <1>4. Holds(current, place, var, alloc_ptr)
    BY <1>1, <1>2, InAccess DEF Holds
  <1>5. /\ from \in Places \ {"outside", "write_space"}
        /\ place \in {"read_count", "write_count", "look_up", "read_space", "write_address", "use"}
    BY <1>1 DEF Places
  <1>6. alloc_ptr \in Nat
    BY DEF TableInv, TLSTypeOK
  <1> QED
    BY <1>2, <1>3, <1>4, <1>5, <1>6, GoToReads

----------------------------------------------------------------------------
\* The index that is counted is the next one.
LEMMA WriteCountKeeps == ASSUME CopyInv, TableInv, OneUpdate', WriteCount PROVE TableInv'
  <1>1. PICK from, place, v, l :
            from = "write_count" /\ place = "write_index" /\ v = var /\ l = local
    OBVIOUS
  <1>2. /\ At(from) /\ GoTo(place, l) /\ UNCHANGED infoVars /\ emutls_var_count' = l + 1
        /\ index' = index /\ alloc_ptr' = alloc_ptr /\ address_arrays' = address_arrays
    BY <1>1 DEF WriteCount
  <1>3. /\ kernel = "up" /\ access[current] # Outside /\ access[current].at = from
        /\ access[current].var = v /\ v \in Vars /\ l \in Nat /\ current \in Tids
        /\ index[v] = 0 /\ l = emutls_var_count
    BY <1>1, <1>2, InAccess DEF Holds
  <1>4. access' = [access EXCEPT ![current] = [at |-> place, var |-> v, local |-> l]]
    BY <1>2, <1>3, GoToLemma DEF TableInv
  <1>5. \A w \in Vars : index[w] \in Nat /\ index[w] <= l
    BY <1>3 DEF TableInv, IndexesDiffer, TLSTypeOK
  <1>6. IndexesDiffer'
    BY <1>2, <1>3, <1>5 DEF TableInv, IndexesDiffer
  <1>7. AddressesDiffer' /\ TableGrows
    BY <1>2, AddressesStay DEF TableInv, TableGrows
  <1>8. \A t \in Tids : \A i \in 1 .. MAX_TLS_VARS :
            \/ address_arrays'[t][i] <= alloc_ptr'
            \/ /\ t # current /\ access[t].at = "write_space"
               /\ address_arrays'[t][i] <= alloc_ptr' + 1
    BY <1>1, <1>2, <1>3, StayCounted
  <1>9. /\ index' \in [Vars -> Nat] /\ emutls_var_count' \in Nat /\ alloc_ptr' \in Nat
        /\ address_arrays' \in [Tids -> [1 .. MAX_TLS_VARS -> Nat]]
    BY <1>2, <1>3 DEF TableInv, TLSTypeOK
  <1>10. place \in Places \ {"outside"}
    BY <1>1 DEF Places
  <1>11. Holds(current, place, v, l)'
    BY <1>1, <1>2, <1>3, <1>5 DEF Holds
  <1>12. \A t \in Tids \ {current} : SparesUpdates(t)
    <2>1. \A t \in Tids \ {current} : access[t].at \notin IndexUpdates
      BY <1>1, <1>3 DEF TableInv, OneUpdate, IndexUpdates
    <2> QED
      BY <1>2, <2>1 DEF SparesUpdates
  <1> QED
    BY <1>2, <1>3, <1>4, <1>6, <1>7, <1>8, <1>9, <1>10, <1>11, <1>12, AccessStep

\* The index that was counted is nobody else's.
LEMMA WriteIndexKeeps == ASSUME CopyInv, TableInv, OneUpdate', WriteIndex PROVE TableInv'
  <1>1. PICK from, place, v, c, l :
            from = "write_index" /\ place = "check_count" /\ v = var /\ c = local /\ l = 0
    OBVIOUS
  <1>2. /\ At(from) /\ GoTo(place, l) /\ UNCHANGED infoVars
        /\ emutls_var_count' = emutls_var_count /\ index' = [index EXCEPT ![v] = 1 + c]
        /\ alloc_ptr' = alloc_ptr /\ address_arrays' = address_arrays
    BY <1>1 DEF WriteIndex
  <1>3. /\ kernel = "up" /\ access[current] # Outside /\ access[current].at = from
        /\ access[current].var = v /\ v \in Vars /\ c \in Nat /\ current \in Tids
        /\ index[v] = 0 /\ c + 1 = emutls_var_count /\ \A w \in Vars : index[w] <= c
    BY <1>1, <1>2, InAccess DEF Holds
  <1>4. access' = [access EXCEPT ![current] = [at |-> place, var |-> v, local |-> l]]
    BY <1>2, <1>3, GoToLemma DEF TableInv
  <1>5. \A w \in Vars : index[w] \in Nat /\ index'[w] = IF w = v THEN 1 + c ELSE index[w]
    BY <1>2, <1>3 DEF TableInv, TLSTypeOK
  <1>6. IndexesDiffer'
    BY <1>2, <1>3, <1>5 DEF TableInv, IndexesDiffer
  <1>7. AddressesDiffer' /\ TableGrows
    BY <1>2, <1>3, <1>5, AddressesStay DEF TableInv, TableGrows
  <1>8. \A t \in Tids : \A i \in 1 .. MAX_TLS_VARS :
            \/ address_arrays'[t][i] <= alloc_ptr'
            \/ /\ t # current /\ access[t].at = "write_space"
               /\ address_arrays'[t][i] <= alloc_ptr' + 1
    BY <1>1, <1>2, <1>3, StayCounted
  <1>9. /\ index' \in [Vars -> Nat] /\ emutls_var_count' \in Nat /\ alloc_ptr' \in Nat
        /\ address_arrays' \in [Tids -> [1 .. MAX_TLS_VARS -> Nat]]
    BY <1>2, <1>3 DEF TableInv, TLSTypeOK
  <1>10. place \in Places \ {"outside"} /\ l \in Nat
    BY <1>1 DEF Places
  <1>11. Holds(current, place, v, l)'
    <2>1. index'[v] # 0
      BY <1>3, <1>5
    <2> QED
      BY <1>1, <2>1 DEF Holds
  <1>12. \A t \in Tids \ {current} : SparesUpdates(t)
    <2>1. \A t \in Tids \ {current} : access[t].at \notin IndexUpdates
      BY <1>1, <1>3 DEF TableInv, OneUpdate, IndexUpdates
    <2> QED
      BY <1>2, <2>1 DEF SparesUpdates
  <1> QED
    BY <1>2, <1>3, <1>4, <1>6, <1>7, <1>8, <1>9, <1>10, <1>11, <1>12, AccessStep

\* The address that is written is one more than those that are counted.
LEMMA WriteAddressKeeps ==
    ASSUME CopyInv, TableInv, OneUpdate', WriteAddress
    PROVE  TableInv'
  <1>1. PICK from, place, v, l, i :
            /\ from = "write_address" /\ place = "write_space" /\ v = var /\ l = local
            /\ i = index[v]
    OBVIOUS
  <1>2. At(from) /\ kernel = "up"
    BY <1>1 DEF WriteAddress, At, AtStage
  <1>3. /\ access[current] # Outside /\ access[current].at = from
        /\ access[current].var = v /\ v \in Vars /\ l \in Nat
        /\ i \in 1 .. MAX_TLS_VARS /\ l = alloc_ptr
        /\ current \in Tids /\ user_thread_info.id = current
    BY <1>1, <1>2, InAccess DEF Holds
  <1>4. PICK a : a = alloc_ptr + 1
    OBVIOUS
  <1>5. ~(i > MAX_TLS_VARS)
    BY <1>3, TLSAssumption
  <1>6. /\ GoTo(place, l) /\ UNCHANGED infoVars
        /\ address_arrays' = [address_arrays EXCEPT ![user_thread_info.id][i] = a]
        /\ emutls_var_count' = emutls_var_count /\ index' = index /\ alloc_ptr' = alloc_ptr
    BY <1>1, <1>4, <1>5 DEF WriteAddress, infoVars
  <1>7. access' = [access EXCEPT ![current] = [at |-> place, var |-> v, local |-> l]]
    BY <1>3, <1>6, GoToLemma DEF TableInv
  <1>8. IndexesDiffer'
    BY <1>6 DEF TableInv, IndexesDiffer
  <1>9. address_arrays \in [Tids -> [1 .. MAX_TLS_VARS -> Nat]]
    BY DEF TableInv, TLSTypeOK
  <1>10. \A t \in Tids : \A j \in 1 .. MAX_TLS_VARS : address_arrays[t][j] <= alloc_ptr
    BY <1>1, <1>3, AllAreCounted
  <1>11. alloc_ptr \in Nat /\ a \in Nat /\ a # NoAddress
    BY <1>3, <1>4 DEF NoAddress
  <1>12. \A t \in Tids : \A j \in 1 .. MAX_TLS_VARS :
             address_arrays'[t][j] = IF t = current /\ j = i THEN a ELSE address_arrays[t][j]
    BY <1>3, <1>6, <1>9
  <1>13. \A t \in Tids : \A j \in 1 .. MAX_TLS_VARS :
             address_arrays[t][j] # a
    <2> SUFFICES ASSUME NEW t \in Tids, NEW j \in 1 .. MAX_TLS_VARS
                 PROVE  address_arrays[t][j] # a
      OBVIOUS
    <2>1. address_arrays[t][j] \in Nat /\ address_arrays[t][j] <= alloc_ptr
      BY <1>9, <1>10
    <2> QED
      BY <1>4, <1>11, <2>1
  <1>14. AddressesDiffer'
    <2> SUFFICES ASSUME NEW t \in Tids, NEW u \in Tids,
                        NEW j \in 1 .. MAX_TLS_VARS, NEW k \in 1 .. MAX_TLS_VARS,
                        address_arrays'[t][j] = address_arrays'[u][k]
                 PROVE  address_arrays'[t][j] = NoAddress \/ (t = u /\ j = k)
      BY DEF AddressesDiffer, NoAddress
    <2>1. address_arrays[t][j] = address_arrays[u][k] =>
              address_arrays[t][j] = NoAddress \/ (t = u /\ j = k)
      BY DEF TableInv, AddressesDiffer
    <2> QED
      BY <1>12, <1>13, <2>1
  <1>15. \A t \in Tids : \A j \in 1 .. MAX_TLS_VARS :
             \/ address_arrays'[t][j] <= alloc_ptr'
             \/ t = current /\ place = "write_space" /\ address_arrays'[t][j] <= alloc_ptr' + 1
    <2> SUFFICES ASSUME NEW t \in Tids, NEW j \in 1 .. MAX_TLS_VARS
                 PROVE  \/ address_arrays'[t][j] <= alloc_ptr
                        \/ t = current /\ address_arrays'[t][j] <= alloc_ptr + 1
      BY <1>1, <1>6
    <2>1. address_arrays[t][j] <= alloc_ptr
      BY <1>10
    <2>2. \/ address_arrays'[t][j] = address_arrays[t][j]
          \/ t = current /\ address_arrays'[t][j] = a
      BY <1>12
    <2> QED
      BY <1>4, <1>11, <2>1, <2>2
  <1>16. /\ index' \in [Vars -> Nat] /\ emutls_var_count' \in Nat /\ alloc_ptr' \in Nat
         /\ address_arrays' \in [Tids -> [1 .. MAX_TLS_VARS -> Nat]]
    BY <1>3, <1>6, <1>9, <1>11 DEF TableInv, TLSTypeOK
  <1>17. TableGrows
    BY <1>6, <1>11, <1>12 DEF TableGrows
  <1>18. place \in Places \ {"outside"}
    BY <1>1 DEF Places
  <1>19. Holds(current, place, v, l)'
    <2>1. address_arrays'[current][i] # NoAddress /\ index'[v] = i /\ current' = current
      BY <1>1, <1>3, <1>6, <1>11, <1>12 DEF infoVars, vars
    <2>2. HasAddress(current, v)'
      BY <1>3, <2>1 DEF HasAddress, NoAddress
    <2> QED
      BY <1>1, <1>3, <1>6, <2>1, <2>2 DEF Holds
  <1>20. \A t \in Tids \ {current} : SparesUpdates(t)
    <2>1. \A t \in Tids \ {current} : access[t].at \notin StorageUpdates
      BY <1>1, <1>3 DEF TableInv, OneUpdate, StorageUpdates
    <2> QED
      BY <1>6, <2>1 DEF SparesUpdates
  <1> QED
    BY <1>2, <1>3, <1>6, <1>7, <1>8, <1>14, <1>15, <1>16, <1>17, <1>18, <1>19, <1>20, AccessStep

\* The address that was written is counted.
LEMMA WriteSpaceKeeps == ASSUME CopyInv, TableInv, OneUpdate', WriteSpace PROVE TableInv'
  <1>1. PICK from, place, v, c, l :
            from = "write_space" /\ place = "use" /\ v = var /\ c = local /\ l = 0
    OBVIOUS
  <1>2. /\ At(from) /\ GoTo(place, l) /\ UNCHANGED infoVars
        /\ alloc_ptr' = c + 1 /\ address_arrays' = address_arrays
        /\ emutls_var_count' = emutls_var_count /\ index' = index
    BY <1>1 DEF WriteSpace
  <1>3. /\ kernel = "up" /\ access[current] # Outside /\ access[current].at = from
        /\ access[current].var = v /\ v \in Vars /\ c \in Nat /\ c = alloc_ptr
        /\ current \in Tids /\ HasAddress(current, v)
    BY <1>1, <1>2, InAccess DEF Holds
  <1>4. access' = [access EXCEPT ![current] = [at |-> place, var |-> v, local |-> l]]
    BY <1>2, <1>3, GoToLemma DEF TableInv
  <1>5. IndexesDiffer'
    BY <1>2 DEF TableInv, IndexesDiffer
  <1>6. AddressesDiffer' /\ TableGrows
    BY <1>2, AddressesStay DEF TableInv, TableGrows
  <1>7. address_arrays \in [Tids -> [1 .. MAX_TLS_VARS -> Nat]]
    BY DEF TableInv, TLSTypeOK
  <1>8. \A t \in Tids : \A j \in 1 .. MAX_TLS_VARS : address_arrays'[t][j] <= alloc_ptr'
    <2> SUFFICES ASSUME NEW t \in Tids, NEW j \in 1 .. MAX_TLS_VARS
                 PROVE  address_arrays[t][j] <= alloc_ptr + 1
      BY <1>2, <1>3
    <2>1. address_arrays[t][j] <= alloc_ptr \/ address_arrays[t][j] <= alloc_ptr + 1
      BY DEF TableInv, AddressesCounted
    <2>2. address_arrays[t][j] \in Nat /\ alloc_ptr \in Nat
      BY <1>3, <1>7
    <2> QED
      BY <2>1, <2>2
  <1>9. /\ index' \in [Vars -> Nat] /\ emutls_var_count' \in Nat /\ alloc_ptr' \in Nat
        /\ address_arrays' \in [Tids -> [1 .. MAX_TLS_VARS -> Nat]]
    BY <1>2, <1>3 DEF TableInv, TLSTypeOK
  <1>10. place \in Places \ {"outside"} /\ l \in Nat
    BY <1>1 DEF Places
  <1>11. Holds(current, place, v, l)'
    <2>1. HasAddress(current, v)'
      BY <1>2, <1>3 DEF HasAddress, NoAddress, infoVars, vars
    <2> QED
      BY <1>1, <2>1 DEF Holds
  <1>12. \A t \in Tids \ {current} : SparesUpdates(t)
    <2>1. \A t \in Tids \ {current} : access[t].at \notin StorageUpdates
      BY <1>1, <1>3 DEF TableInv, OneUpdate, StorageUpdates
    <2> QED
      BY <1>2, <2>1 DEF SparesUpdates
  <1> QED
    BY <1>2, <1>3, <1>4, <1>5, <1>6, <1>8, <1>9, <1>10, <1>11, <1>12, AccessStep

----------------------------------------------------------------------------
\* A step of no access, where no access changes but one that is over, or of a new
\* thread in a slot that has left no update undone.
LEMMA OutsideKeeps ==
    ASSUME TableInv, UNCHANGED table, DOMAIN access' = Tids,
           \A t \in Tids : \/ access'[t] = access[t]
                           \/ access'[t] = Outside /\ access[t].at \notin Updates
    PROVE  TableInv'
  <1>1. /\ emutls_var_count' = emutls_var_count /\ index' = index
        /\ alloc_ptr' = alloc_ptr /\ address_arrays' = address_arrays
    BY DEF table
  <1>2. TLSTypeOK'
    BY <1>1 DEF TableInv, TLSTypeOK
  <1>3. IndexesDiffer'
    BY <1>1 DEF TableInv, IndexesDiffer
  <1>4. AddressesDiffer'
    BY <1>1, AddressesStay DEF TableInv
  <1>5. AddressesCounted'
    BY <1>1 DEF TableInv, AddressesCounted, Updates, StorageUpdates
  <1>6. OneUpdate'
    <2>1. \A t \in Tids : access'[t].at \in Updates => access'[t] = access[t]
      BY DEF Outside, Updates, IndexUpdates, StorageUpdates
    <2> QED
      BY <2>1 DEF TableInv, OneUpdate, Updates
  <1>7. LocalsHold'
    <2> SUFFICES ASSUME NEW t \in Tids, access'[t] # Outside
                 PROVE  Holds(t, access[t].at, access[t].var, access[t].local)'
      BY DEF LocalsHold
    <2>1. access'[t] = access[t] /\ Holds(t, access[t].at, access[t].var, access[t].local)
      BY DEF TableInv, LocalsHold
    <2> QED
      BY <1>1, <2>1 DEF Holds, HasAddress, NoAddress
  <1> QED
    BY <1>2, <1>3, <1>4, <1>5, <1>6, <1>7 DEF TableInv

\* The access is over.
LEMMA UseKeeps == ASSUME CopyInv, TableInv, Use PROVE TableInv'
  <1>1. access[current].at = "use" /\ UNCHANGED table
    BY DEF Use, At
  <1>2. access[current].at \notin Updates
    BY <1>1 DEF Updates, IndexUpdates, StorageUpdates
  <1>3. DOMAIN access' = Tids
    BY DEF Use, TableInv, TLSTypeOK
  <1>4. \A t \in Tids : \/ access'[t] = access[t]
                        \/ access'[t] = Outside /\ access[t].at \notin Updates
    BY <1>2 DEF Use, TableInv, TLSTypeOK
  <1> QED
    BY <1>1, <1>3, <1>4, OutsideKeeps

\* A step that changes neither the table nor any access.
LEMMA OtherKeeps == ASSUME TableInv, UNCHANGED <<table, access>> PROVE TableInv'
  BY OutsideKeeps DEF TableInv, TLSTypeOK

\* The boot, or a new thread in a slot.
LEMMA TLSCreateKeeps ==
    ASSUME TableInv, NEW t \in Tids, TLSCreate(t), ~LeftUndone
    PROVE  TableInv'
  <1>1. UNCHANGED table /\ access' = [access EXCEPT ![t] = Outside]
    BY DEF TLSCreate
  <1>2. access'[t] = Outside /\ DOMAIN access' = Tids
    BY <1>1 DEF TableInv, TLSTypeOK
  <1>3. access[t].at \notin Updates
    BY <1>2 DEF LeftUndone
  <1>4. \A u \in Tids : \/ access'[u] = access[u]
                        \/ access'[u] = Outside /\ access[u].at \notin Updates
    BY <1>1, <1>2, <1>3 DEF TableInv, TLSTypeOK
  <1> QED
    BY <1>1, <1>2, <1>4, OutsideKeeps

\* One case for each step of an access, and one for all others.
LEMMA TableStep ==
    ASSUME CopyInv, TableInv, TLSStep, OneUpdate', ~LeftUndone
    PROVE  TableInv'
  <1>1. CASE \E v \in Vars : GetIndex(v)
    BY <1>1, GetIndexKeeps
  <1>2. CASE ReadCount \/ WriteCount \/ WriteIndex
    BY <1>2, ReadCountKeeps, WriteCountKeeps, WriteIndexKeeps
  <1>3. CASE CheckCount
    BY <1>3, CheckCountKeeps, OtherKeeps DEF CheckCount
  <1>4. CASE LookUp
    <2>1. CASE PastTheRow
      BY <1>4, <2>1, OtherKeeps DEF PastTheRow
    <2>2. CASE ~PastTheRow
      BY <1>4, <2>2, LookUpKeeps DEF LookUp
    <2> QED
      BY <2>1, <2>2
  <1>5. CASE ReadSpace
    BY <1>5, ReadSpaceKeeps, OtherKeeps DEF ReadSpace
  <1>6. CASE WriteAddress \/ WriteSpace \/ Use
    BY <1>6, WriteAddressKeeps, WriteSpaceKeeps, UseKeeps
  <1>7. CASE \E t \in Tids : TLSCreate(t)
    BY <1>7, TLSCreateKeeps
  <1>8. CASE TLSOther
    BY <1>8, OtherKeeps DEF TLSOther
  <1> QED
    BY <1>1, <1>2, <1>3, <1>4, <1>5, <1>6, <1>7, <1>8 DEF TLSStep

\* Every step keeps the invariant of thread local variables.
LEMMA TLSKeeps ==
    ASSUME NoneRemoved, TLSInv, [TLSNext]_tlsVars
    PROVE  TLSInv'
  <1>1. CopyInv'
    BY TLSCopyStep DEF TLSInv
  <1>2. CASE TLSNext
    <2> SUFFICES ASSUME ~disturbed' PROVE TableInv'
      BY <1>1 DEF TLSInv
    <2>1. TLSStep /\ ~disturbed /\ ~LeftUndone /\ ~TwoUpdate'
      BY <1>2 DEF TLSNext
    <2>2. OneUpdate'
      BY <2>1 DEF TwoUpdate, OneUpdate
    <2> QED
      BY <2>1, <2>2, TableStep DEF TLSInv
  <1>3. CASE UNCHANGED tlsVars
    <2> SUFFICES ASSUME TableInv PROVE TableInv'
      BY <1>1, <1>3 DEF TLSInv, tlsVars, tls
    <2>1. /\ UNCHANGED vars /\ access' = access /\ index' = index
          /\ emutls_var_count' = emutls_var_count /\ alloc_ptr' = alloc_ptr
          /\ address_arrays' = address_arrays
      BY <1>3 DEF tlsVars, tls, table, infoVars
    <2>2. TLSTypeOK' /\ IndexesDiffer' /\ AddressesDiffer'
      BY <2>1, AddressesStay DEF TableInv, TLSTypeOK, IndexesDiffer
    <2>3. OneUpdate' /\ AddressesCounted'
      BY <2>1 DEF TableInv, OneUpdate, AddressesCounted, vars
    <2>4. LocalsHold'
      BY <2>1 DEF TableInv, LocalsHold, Holds, HasAddress, NoAddress
    <2> QED
      BY <2>2, <2>3, <2>4 DEF TableInv
  <1> QED
    BY <1>2, <1>3

\* Every thread has storage of its own for every variable, and gets it, whatever
\* order threads first touch them in, wherever the timer interrupts them, also in
\* an update, and whichever threads come and go, until an update begins before
\* another one of the same kind, of the counter and the indexes or of the storage
\* and its addresses, has ended.
THEOREM StorageIsSeparate == ASSUME NoneRemoved PROVE TLSSpec => []VariablesAreSeparate
  <1>1. TLSInv /\ [TLSNext]_tlsVars => TLSInv'
    BY TLSKeeps
  <1>2. TLSInv => VariablesAreSeparate
    <2> SUFFICES ASSUME TableInv
                 PROVE  /\ \A t, u \in Tids : \A v, w \in Vars :
                               AddressOf(t, v) = AddressOf(u, w) =>
                                   AddressOf(t, v) = NoAddress \/ (t = u /\ v = w)
                        /\ \A t \in Tids :
                               access[t].at = "use" => AddressOf(t, access[t].var) # NoAddress
      BY DEF TLSInv, VariablesAreSeparate
    <2>1. ASSUME NEW t \in Tids, NEW u \in Tids, NEW v \in Vars, NEW w \in Vars,
                 AddressOf(t, v) = AddressOf(u, w), AddressOf(t, v) # NoAddress
          PROVE  t = u /\ v = w
      <3>1. index[v] \in 1 .. MAX_TLS_VARS /\ index[w] \in 1 .. MAX_TLS_VARS
        BY <2>1 DEF AddressOf
      <3>2. t = u /\ index[v] = index[w]
        BY <2>1, <3>1 DEF AddressOf, TableInv, AddressesDiffer
      <3> QED
        BY <3>1, <3>2 DEF TableInv, IndexesDiffer
    <2>2. ASSUME NEW t \in Tids, access[t].at = "use"
          PROVE  AddressOf(t, access[t].var) # NoAddress
      <3>1. access[t] # Outside
        BY <2>2 DEF Outside
      <3>2. HasAddress(t, access[t].var)
        BY <2>2, <3>1 DEF TableInv, LocalsHold, Holds
      <3> QED
        BY <3>2 DEF HasAddress, AddressOf
    <2> QED
      BY <2>1, <2>2
  <1> QED
    BY TLSStart, <1>1, <1>2, PTL DEF TLSSpec

----------------------------------------------------------------------------
(* The shell: the live threads are a chain of commands, the last of which   *)
(* runs.  A command waits, with its successor as its child, for all the     *)
(* threads above it to end.                                                 *)

ShellPlaces ==
    {"nowhere", "reading", "command", "prompt", "adopt", "yield", "load", "start", "return"}

IsFrame(f) ==
    /\ f = [name |-> f.name, argc |-> f.argc, argv |-> f.argv, place |-> f.place, tid |-> f.tid]
    /\ f.place \in ShellPlaces

FramesOK == DOMAIN frame = Tids /\ \A t \in Tids : IsFrame(frame[t])

\* Thread t has created a thread that has not run yet.
Starting(t) == frame[t].place \in {"adopt", "yield"}

\* A thread below the current one: it has yielded to the next, and is done.
WaitsForNext(t) ==
    /\ can_schedule_thread(id, state, t)
    /\ stage[t] = "work"
    /\ parent[t + 1] = t
    /\ frame[t].place = IF t = 0 THEN "prompt" ELSE "return"

\* The current thread c, in the shell or in a command.
RunsOnTop(c) ==
    /\ stage[c] # "returned"
    /\ stage[c] # "work" => c # 0 /\ frame[c].place = "return"
    /\ stage[c] = "finished" => state[c] = "finished"
    /\ IF c = 0 THEN frame[c].place \in {"reading", "command", "prompt", "adopt", "yield"}
                ELSE frame[c].place \in {"load", "start", "adopt", "yield", "return"}

\* The thread that the current one, c, has just created.
IsNext(c, t) ==
    /\ t = c + 1
    /\ frame[c].tid = t
    /\ can_schedule_thread(id, state, t)
    /\ stage[t] = "work"
    /\ child[t] = INVALID_THREAD
    /\ frame[t].place \in {"load", "start"}
    /\ frame[c].place = "yield" => parent[t] = c

ChainInv ==
    kernel = "up" =>
        /\ \A t \in Tids : t < current => WaitsForNext(t)
        /\ \A t \in Tids : t <= current => child[t] \in {INVALID_THREAD, t + 1}
        /\ RunsOnTop(current)
        /\ \A t \in Tids : t > current => SlotIsFree(t) \/ (Starting(current) /\ IsNext(current, t))
        /\ Starting(current) => current + 1 \in Tids /\ IsNext(current, current + 1)

ShellInv ==
    /\ SafeInv
    /\ BootInv
    /\ FramesOK
    /\ kernel = "boot" => frame[0].place = "reading"
    /\ ChainInv

\* The current thread changes its own slot and frame only.
LEMMA StayingKeepsChain ==
    ASSUME SafeInv, ChainInv, kernel = "up", ~Starting(current),
           UNCHANGED <<current, parent>>,
           \A t \in Tids \ {current} :
               /\ id'[t] = id[t] /\ state'[t] = state[t] /\ stage'[t] = stage[t]
               /\ child'[t] = child[t] /\ frame'[t] = frame[t],
           child'[current] \in {INVALID_THREAD, current + 1},
           ~Starting(current)', RunsOnTop(current)'
    PROVE  ChainInv'
  <1>1. PICK c \in Tids : c = current /\ c = current'
    BY WorkerIsLive
  <1>2. ASSUME NEW t \in Tids, t < c
        PROVE  WaitsForNext(t)'
    <2>1. t # c
      BY <1>2 DEF Tids
    <2> QED
      BY <1>1, <1>2, <2>1 DEF ChainInv, WaitsForNext, can_schedule_thread
  <1>3. ASSUME NEW t \in Tids, t > c
        PROVE  SlotIsFree(t)'
    <2>1. t # c
      BY <1>3 DEF Tids
    <2> QED
      BY <1>1, <1>3, <2>1 DEF ChainInv, SlotIsFree
  <1>4. \A t \in Tids : t <= c => child'[t] \in {INVALID_THREAD, t + 1}
    BY <1>1 DEF ChainInv
  <1> QED
    BY <1>1, <1>2, <1>3, <1>4 DEF ChainInv

\* Where the current thread goes on.
LEMMA GoOnGoes ==
    ASSUME FramesOK, NEW c \in Tids, NEW place \in ShellPlaces,
           frame' = [frame EXCEPT ![c].place = place]
    PROVE  /\ FramesOK'
           /\ frame'[c].place = place /\ frame'[c].tid = frame[c].tid
           /\ \A t \in Tids \ {c} : frame'[t] = frame[t]
  BY DEF FramesOK, IsFrame

\* The current thread goes on, and nothing else changes in the threads.
LEMMA GoingOnKeepsChain ==
    ASSUME ShellInv, kernel = "up", ~Starting(current), UNCHANGED vars,
           NEW place \in ShellPlaces, GoOn(place), place \notin {"adopt", "yield"},
           IF current = 0 THEN place \in {"reading", "command", "prompt"}
                          ELSE place \in {"load", "start", "return"},
           stage[current] = "work"
    PROVE  FramesOK' /\ ChainInv'
  <1>1. PICK c \in Tids : c = current
    BY WorkerIsLive DEF ShellInv
  <1>2. /\ FramesOK' /\ frame'[c].place = place
        /\ \A t \in Tids \ {c} : frame'[t] = frame[t]
    BY <1>1, GoOnGoes DEF ShellInv, GoOn
  <1>3. ~Starting(current)' /\ RunsOnTop(current)'
    BY <1>1, <1>2 DEF Starting, RunsOnTop, vars
  <1>4. child'[current] \in {INVALID_THREAD, current + 1}
    BY <1>1 DEF ShellInv, ChainInv, vars, Tids
  <1>5. ChainInv'
    BY <1>1, <1>2, <1>3, <1>4, StayingKeepsChain DEF ShellInv, vars, family
  <1> QED
    BY <1>2, <1>5


\* A step that ends the kernel.
LEMMA EndKeepsChain ==
    ASSUME ShellInv, SafeInv', kernel' \notin {"boot", "up"}, UNCHANGED frame
    PROVE  ShellInv'
  BY DEF ShellInv, BootInv, FramesOK, IsFrame, ChainInv

\* A step between two states of a kernel that is up.
LEMMA UpKeepsShell ==
    ASSUME SafeInv', kernel' = "up", FramesOK', ChainInv'
    PROVE  ShellInv'
  BY DEF ShellInv, BootInv

\* The boot starts the shell, in slot 0.
LEMMA StartKeepsChain ==
    ASSUME ShellInv, SafeInv', Start, UNCHANGED shell
    PROVE  ShellInv'
  <1>1. /\ id' = [id EXCEPT ![0] = 0] /\ parent' = [parent EXCEPT ![0] = INVALID_THREAD]
        /\ child' = [child EXCEPT ![0] = INVALID_THREAD]
        /\ stage' = [stage EXCEPT ![0] = "work"]
        /\ do_scheduler(id', [state EXCEPT ![0] = "init"], NULL)
        /\ frame' = frame /\ frame[0].place = "reading"
        /\ \A t \in Tids : id[t] = INVALID_THREAD
    BY DEF Start, Boot, init_thread, ShellInv, BootInv, shell
  <1>2. 0 \in Tids /\ DOMAIN id = Tids /\ DOMAIN child = Tids /\ DOMAIN stage = Tids
    BY MaxThreadsAssumption DEF ShellInv, SafeInv, TypeOK, Tids
  <1>3. /\ id'[0] = 0 /\ child'[0] = INVALID_THREAD /\ stage'[0] = "work"
        /\ \A t \in Tids \ {0} : id'[t] = INVALID_THREAD
    BY <1>1, <1>2
  <1>4. CASE kernel' # "up"
    <2>1. kernel' = "exit0"
      BY <1>1, <1>4 DEF do_scheduler, SwitchTo
    <2> QED
      BY <1>1, <2>1, EndKeepsChain
  <1>5. CASE kernel' = "up"
    <2>1. current' = 0
      BY <1>1, <1>3, <1>5, WorkerIsLive
         DEF do_scheduler, SwitchTo, choose_next_thread, can_schedule_thread
    <2>2. FramesOK'
      BY <1>1 DEF ShellInv, FramesOK, IsFrame
    <2>3. /\ \A t \in Tids : ~(t < 0)
          /\ \A t \in Tids : t <= 0 => t = 0
      BY DEF Tids
    <2>4. /\ RunsOnTop(0)' /\ ~Starting(0)'
          /\ \A t \in Tids : t > 0 => SlotIsFree(t)'
      BY <1>1, <1>3 DEF RunsOnTop, Starting, SlotIsFree
    <2>5. ChainInv'
      BY <1>3, <1>5, <2>1, <2>3, <2>4 DEF ChainInv
    <2> QED
      BY <1>5, <2>2, <2>5, UpKeepsShell
  <1> QED
    BY <1>4, <1>5

\* A frame is made whole.
LEMMA NewIsFrame ==
    ASSUME NEW name, NEW argc, NEW from, NEW place \in {"load", "start"}
    PROVE  /\ IsFrame(Frame(name, argc, from, place))
           /\ Frame(name, argc, from, place).place = place
  BY DEF Frame, IsFrame, ShellPlaces

FrameStarts(t, name, argc, from, place) ==
    frame' = [frame EXCEPT ![t] = Frame(name, argc, from, place),
                           ![current].place = "adopt", ![current].tid = t]

\* A new thread goes on top of the chain.
LEMMA CreateKeepsChain ==
    ASSUME ShellInv, kernel = "up", stage[current] = "work", ~Starting(current),
           NEW t \in Tids, FirstFreeSlot(t), AddThread({}),
           NEW name, NEW argc, NEW from, NEW place \in {"load", "start"},
           FrameStarts(t, name, argc, from, place)
    PROVE  FramesOK' /\ ChainInv' /\ kernel' = "up"
  <1>1. PICK c \in Tids : c = current /\ ~SlotIsFree(c)
    BY WorkerIsLive DEF ShellInv
  <1>2. /\ \A u \in Tids : u < c => ~SlotIsFree(u)
        /\ \A u \in Tids : u > c => SlotIsFree(u)
    BY <1>1 DEF ShellInv, ChainInv, WaitsForNext, can_schedule_thread, SlotIsFree
  <1>3. t = c + 1
    <2>1. t > c
      BY <1>1, <1>2 DEF FirstFreeSlot, Tids
    <2>2. c + 1 \in Tids /\ c + 1 > c
      BY <2>1, MaxThreadsAssumption DEF Tids
    <2>3. ~(c + 1 < t)
      BY <1>2, <2>2 DEF FirstFreeSlot
    <2> QED
      BY <2>1, <2>3 DEF Tids
  <1>4. PICK u \in Tids : /\ FirstFreeSlot(u)
                          /\ init_thread(u, INVALID_THREAD, permissions[current] \ {})
                          /\ state' = [state EXCEPT ![u] = "init"]
    BY DEF AddThread
  <1>5. u = t
    BY <1>4 DEF FirstFreeSlot, Tids
  <1>6. /\ id' = [id EXCEPT ![t] = t] /\ child' = [child EXCEPT ![t] = INVALID_THREAD]
        /\ parent' = [parent EXCEPT ![t] = INVALID_THREAD]
        /\ stage' = [stage EXCEPT ![t] = "work"] /\ state' = [state EXCEPT ![t] = "init"]
        /\ current' = current /\ kernel' = kernel
    BY <1>4, <1>5 DEF AddThread, init_thread
  <1>7. /\ id'[t] = t /\ child'[t] = INVALID_THREAD /\ stage'[t] = "work" /\ state'[t] = "init"
        /\ \A v \in Tids \ {t} :
              /\ id'[v] = id[v] /\ child'[v] = child[v] /\ parent'[v] = parent[v]
              /\ stage'[v] = stage[v] /\ state'[v] = state[v]
    BY <1>6 DEF ShellInv, SafeInv, TypeOK
  <1>8. /\ FramesOK'
        /\ frame'[c].place = "adopt" /\ frame'[c].tid = t /\ frame'[t].place = place
        /\ \A v \in Tids \ {c, t} : frame'[v] = frame[v]
    <2>1. c # t
      BY <1>1, <1>3 DEF Tids
    <2>2. DOMAIN frame = Tids /\ \A v \in Tids : IsFrame(frame[v])
      BY DEF ShellInv, FramesOK
    <2>3. DOMAIN frame' = Tids
      BY <2>2 DEF FrameStarts
    <2>4. frame'[t] = Frame(name, argc, from, place)
      BY <1>1, <2>1, <2>2 DEF FrameStarts
    <2>5. frame'[c] = [frame[c] EXCEPT !.place = "adopt", !.tid = t]
      BY <1>1, <2>1, <2>2 DEF FrameStarts
    <2>6. \A v \in Tids \ {c, t} : frame'[v] = frame[v]
      BY <1>1, <2>2 DEF FrameStarts
    <2>7. /\ frame'[c].place = "adopt" /\ frame'[c].tid = t
          /\ IsFrame(frame'[c])
      <3>1. PICK f : f = frame[c] /\ IsFrame(f)
        BY <2>2
      <3>2. PICK g : g = [f EXCEPT !.place = "adopt", !.tid = t]
        OBVIOUS
      <3>3. /\ g = [name |-> f.name, argc |-> f.argc, argv |-> f.argv,
                   place |-> "adopt", tid |-> t]
            /\ g.place = "adopt" /\ g.tid = t
        BY <3>1, <3>2 DEF IsFrame
      <3>4. frame'[c] = g
        BY <2>5, <3>1, <3>2
      <3> QED
        BY <3>3, <3>4 DEF IsFrame, ShellPlaces
    <2>8. frame'[t].place = place /\ IsFrame(frame'[t])
      BY <2>4, NewIsFrame
    <2>9. \A v \in Tids : IsFrame(frame'[v])
      BY <2>2, <2>6, <2>7, <2>8
    <2> QED
      BY <2>3, <2>6, <2>7, <2>8, <2>9 DEF FramesOK, IsFrame
  <1>9. IsNext(c, t)' /\ Starting(c)'
    <2>1. can_schedule_thread(id', state', t)
      BY <1>7 DEF can_schedule_thread, Tids, INVALID_THREAD
    <2> QED
      BY <1>3, <1>7, <1>8, <2>1 DEF IsNext, Starting
  <1>10. ASSUME NEW v \in Tids, v < c
         PROVE  WaitsForNext(v)'
    <2>1. v + 1 \in Tids /\ v # t /\ v + 1 # t /\ v # c
      BY <1>1, <1>3, <1>10, MaxThreadsAssumption DEF Tids
    <2>2. WaitsForNext(v)
      BY <1>1, <1>10 DEF ShellInv, ChainInv
    <2>3. frame'[v] = frame[v] /\ parent'[v + 1] = parent[v + 1]
      BY <1>7, <1>8, <2>1
    <2> QED
      BY <1>7, <2>1, <2>2, <2>3 DEF WaitsForNext, can_schedule_thread
  <1>11. ASSUME NEW v \in Tids, v <= c
         PROVE  child'[v] \in {INVALID_THREAD, v + 1}
    BY <1>1, <1>3, <1>7, <1>11 DEF ShellInv, ChainInv, Tids
  <1>12. ASSUME NEW v \in Tids, v > c, v # t
         PROVE  SlotIsFree(v)'
    BY <1>2, <1>7, <1>12 DEF SlotIsFree
  <1>13. RunsOnTop(c)'
    <2>1. stage'[c] = "work"
      BY <1>1, <1>3, <1>7 DEF Tids
    <2> QED
      BY <1>8, <2>1 DEF RunsOnTop
  <1> QED
    BY <1>1, <1>3, <1>6, <1>8, <1>9, <1>10, <1>11, <1>12, <1>13 DEF ChainInv


\* The thread that creates another makes it its child.
LEMMA AdoptKeepsChain ==
    ASSUME ShellInv, Adopt
    PROVE  FramesOK' /\ ChainInv' /\ kernel' = "up"
  <1>1. PICK c \in Tids : c = current /\ kernel = "up"
    BY WorkerIsLive DEF ShellInv, Adopt, ShellIsAt, AtStage
  <1>2. frame[c].place = "adopt" /\ stage[c] = "work"
    BY <1>1 DEF Adopt, ShellIsAt, AtStage
  <1>3. PICK t \in Tids : t = c + 1 /\ IsNext(c, t)
    BY <1>1, <1>2 DEF ShellInv, ChainInv, Starting
  <1>4. /\ child' = [child EXCEPT ![c] = t] /\ parent' = [parent EXCEPT ![t] = c]
        /\ UNCHANGED <<id, state, stage, current, kernel>>
    BY <1>1, <1>3 DEF Adopt, SetChild, Target, CURRENT_THREAD, IsNext
  <1>5. /\ child'[c] = t /\ parent'[t] = c
        /\ \A v \in Tids \ {c} : child'[v] = child[v]
        /\ \A v \in Tids \ {t} : parent'[v] = parent[v]
    BY <1>4 DEF ShellInv, SafeInv, TypeOK
  <1>6. /\ FramesOK' /\ frame'[c].place = "yield" /\ frame'[c].tid = frame[c].tid
        /\ \A v \in Tids \ {c} : frame'[v] = frame[v]
    BY <1>1, GoOnGoes DEF ShellInv, Adopt, GoOn, ShellPlaces
  <1>7. c # t
    BY <1>3 DEF Tids
  <1>8. IsNext(c, t)' /\ Starting(c)'
    BY <1>3, <1>4, <1>5, <1>6, <1>7 DEF IsNext, Starting, can_schedule_thread
  <1>9. ASSUME NEW v \in Tids, v < c
        PROVE  WaitsForNext(v)'
    <2>1. v + 1 \in Tids /\ v # t /\ v + 1 # t /\ v # c
      BY <1>3, <1>9, MaxThreadsAssumption DEF Tids
    <2>2. WaitsForNext(v)
      BY <1>1, <1>9 DEF ShellInv, ChainInv
    <2> QED
      BY <1>4, <1>5, <1>6, <2>1, <2>2 DEF WaitsForNext, can_schedule_thread
  <1>10. ASSUME NEW v \in Tids, v <= c
         PROVE  child'[v] \in {INVALID_THREAD, v + 1}
    BY <1>1, <1>3, <1>5, <1>10 DEF ShellInv, ChainInv
  <1>11. ASSUME NEW v \in Tids, v > c, v # t
         PROVE  SlotIsFree(v)'
    BY <1>1, <1>3, <1>4, <1>11 DEF ShellInv, ChainInv, IsNext, SlotIsFree
  <1>12. RunsOnTop(c)'
    BY <1>2, <1>4, <1>6 DEF RunsOnTop
  <1> QED
    BY <1>1, <1>3, <1>4, <1>6, <1>8, <1>9, <1>10, <1>11, <1>12 DEF ChainInv

\* It waits for it to end: by now it stands at what it does then.
LEMMA YieldToKeepsChain ==
    ASSUME ShellInv, YieldToCommand
    PROVE  FramesOK' /\ ChainInv' /\ kernel' = "up"
  <1>1. PICK c \in Tids : c = current /\ kernel = "up"
    BY WorkerIsLive DEF ShellInv, YieldToCommand, ShellIsAt, AtStage
  <1>2. frame[c].place = "yield" /\ stage[c] = "work"
    BY <1>1 DEF YieldToCommand, ShellIsAt, AtStage
  <1>3. PICK t \in Tids : t = c + 1 /\ IsNext(c, t)
    BY <1>1, <1>2 DEF ShellInv, ChainInv, Starting
  <1>4. t # c /\ t # NULL /\ t # 0
    BY <1>3 DEF Tids, NULL
  <1>5. /\ SwitchTo(state, t)
        /\ UNCHANGED <<id, parent, child, stage>>
    <2>1. YieldTo(t)
      BY <1>1, <1>3 DEF YieldToCommand, IsNext
    <2> QED
      BY <1>4, <2>1 DEF YieldTo, do_scheduler, family
  <1>6. /\ current' = t /\ kernel' = "up"
        /\ \A v \in Tids : can_schedule_thread(id, state, v)
                              => can_schedule_thread(id', state', v)
        /\ \A v \in Tids : SlotIsFree(v) /\ v # t => SlotIsFree(v)'
    BY <1>5 DEF SwitchTo, can_schedule_thread, SlotIsFree
  <1>7. /\ FramesOK' /\ frame'[c].place = IF c = 0 THEN "prompt" ELSE "return"
        /\ \A v \in Tids \ {c} : frame'[v] = frame[v]
    <2>1. PICK place \in ShellPlaces : /\ place = IF c = 0 THEN "prompt" ELSE "return"
                                      /\ frame' = [frame EXCEPT ![c].place = place]
      BY <1>1 DEF YieldToCommand, GoOn, ShellPlaces
    <2> QED
      BY <2>1, GoOnGoes DEF ShellInv
  <1>8. WaitsForNext(c)'
    <2>1. can_schedule_thread(id, state, c)
      BY <1>1, <1>2 DEF ShellInv, SafeInv, TypeOK, CurrentIsLive, can_schedule_thread, Tids,
                        INVALID_THREAD
    <2> QED
      BY <1>2, <1>3, <1>5, <1>6, <1>7, <2>1 DEF WaitsForNext, IsNext
  <1>9. ASSUME NEW v \in Tids, v < c
        PROVE  WaitsForNext(v)'
    <2>1. v # c
      BY <1>9 DEF Tids
    <2>2. WaitsForNext(v)
      BY <1>1, <1>9 DEF ShellInv, ChainInv
    <2> QED
      BY <1>5, <1>6, <1>7, <2>1, <2>2 DEF WaitsForNext
  <1>10. ASSUME NEW v \in Tids, v <= t
         PROVE  child'[v] \in {INVALID_THREAD, v + 1}
    <2>1. v <= c \/ v = t
      BY <1>3, <1>10 DEF Tids
    <2> QED
      BY <1>1, <1>3, <1>5, <2>1 DEF ShellInv, ChainInv, IsNext
  <1>11. ASSUME NEW v \in Tids, v > t
         PROVE  SlotIsFree(v)'
    <2>1. v > c /\ v # t
      BY <1>3, <1>11 DEF Tids
    <2> QED
      BY <1>1, <1>3, <1>6, <2>1 DEF ShellInv, ChainInv, IsNext
  <1>12. RunsOnTop(t)' /\ ~Starting(t)'
    BY <1>3, <1>4, <1>5, <1>7 DEF RunsOnTop, Starting, IsNext
  <1>13. ASSUME NEW v \in Tids, v < t
         PROVE  v < c \/ v = c
    BY <1>3, <1>13 DEF Tids
  <1> QED
    BY <1>6, <1>7, <1>8, <1>9, <1>10, <1>11, <1>12, <1>13 DEF ChainInv

\* The walk of the scheduler finds nothing sooner than where it starts.
LEMMA WalkEndsAtStart ==
    ASSUME NEW p \in Tids, NEW n \in Tids, WalkLength(p, n) <= WalkLength(p, p)
    PROVE  n = p
  <1>1. /\ p \in Int /\ n \in Int /\ MAX_THREADS \in Nat \ {0}
        /\ n - p < MAX_THREADS /\ p - n < MAX_THREADS
    BY MaxThreadsAssumption DEF Tids
  <1>2. (p - p) % MAX_THREADS = 0
    BY <1>1
  <1>3. (n - p) % MAX_THREADS <= 0
    BY <1>1, <1>2 DEF WalkLength
  <1>4. n - p >= 0 => (n - p) % MAX_THREADS = n - p
    BY <1>1
  <1>5. n - p < 0 => (n - p) % MAX_THREADS = n - p + MAX_THREADS
    BY <1>1
  <1> QED
    BY <1>1, <1>3, <1>4, <1>5

\* When a thread ends, the one that waits for it goes on: the scheduler looks
\* for a child first, which has ended before it, and then for the parent.
LEMMA EndedGoesToParent ==
    ASSUME ShellInv, YieldAsm, NEW c \in Tids, c = current, ~Starting(c)
    PROVE  /\ c # 0 /\ c - 1 \in Tids /\ SwitchTo(state, c - 1)
           /\ UNCHANGED <<id, parent, child>>
           /\ stage' = [stage EXCEPT ![c] = "returned"]
           /\ kernel = "up" /\ stage[c] = "finished"
  <1>1. /\ kernel = "up" /\ stage[c] = "finished" /\ do_scheduler(id, state, NULL)
        /\ UNCHANGED <<id, parent, child>>
        /\ stage' = [stage EXCEPT ![c] = "returned"]
    BY DEF YieldAsm, AtStage, family
  <1>2. c # 0
    BY <1>1 DEF ShellInv, ChainInv, RunsOnTop
  <1>3. PICK p \in Tids : p = c - 1 /\ p < c /\ p + 1 = c
    BY <1>2, MaxThreadsAssumption DEF Tids
  <1>4. can_schedule_thread(id, state, p) /\ parent[c] = p
    BY <1>1, <1>3 DEF ShellInv, ChainInv, WaitsForNext
  <1>5. ~can_schedule_thread(id, state, child[c])
    <2>1. child[c] \in {INVALID_THREAD, c + 1}
      BY <1>1 DEF ShellInv, ChainInv, Tids
    <2>2. c + 1 \in Tids => SlotIsFree(c + 1)
      BY <1>1 DEF ShellInv, ChainInv, Tids
    <2> QED
      BY <2>1, <2>2 DEF can_schedule_thread, SlotIsFree, Tids, INVALID_THREAD
  <1>6. next_possible_thread_idx(id, state) = p
    <2>1. current # NULL
      BY DEF NULL, Tids
    <2> QED
      BY <1>4, <1>5, <2>1 DEF next_possible_thread_idx
  <1>7. PICK n \in Tids : choose_next_thread(id, state, n) /\ SwitchTo(state, n)
    BY <1>1, <1>4 DEF do_scheduler
  <1>8. WalkLength(p, n) <= WalkLength(p, p)
    BY <1>4, <1>6, <1>7 DEF choose_next_thread
  <1>9. n = p
    BY <1>8, WalkEndsAtStart
  <1> QED
    BY <1>1, <1>2, <1>3, <1>7, <1>9

\* A thread off the processor leaves the chain.
LEMMA EndedKeepsChain ==
    ASSUME ShellInv, YieldAsm, frame[current].place = "return",
           frame' = [frame EXCEPT ![current] = NoFrame]
    PROVE  FramesOK' /\ ChainInv' /\ kernel' = "up"
  <1>1. PICK c \in Tids : c = current
    BY WorkerIsLive DEF ShellInv, YieldAsm, AtStage
  <1>2. ~Starting(c)
    BY <1>1 DEF Starting
  <1>3. /\ c # 0 /\ c - 1 \in Tids /\ SwitchTo(state, c - 1)
        /\ UNCHANGED <<id, parent, child>>
        /\ stage' = [stage EXCEPT ![c] = "returned"]
        /\ kernel = "up" /\ stage[c] = "finished"
    BY <1>1, <1>2, EndedGoesToParent
  <1>4. PICK p \in Tids : p = c - 1 /\ p < c /\ p # c
    BY <1>3 DEF Tids
  <1>5. current' = p /\ kernel' = "up" /\ state[c] = "finished"
    BY <1>1, <1>3, <1>4 DEF SwitchTo, ShellInv, ChainInv, RunsOnTop
  <1>6. /\ FramesOK'
        /\ \A v \in Tids \ {c} : frame'[v] = frame[v] /\ stage'[v] = stage[v]
    <2>1. IsFrame(NoFrame)
      BY DEF NoFrame, Frame, IsFrame, ShellPlaces
    <2> QED
      BY <1>1, <1>3, <2>1 DEF ShellInv, SafeInv, TypeOK, FramesOK, IsFrame
  <1>7. /\ \A v \in Tids : can_schedule_thread(id, state, v)
                              => can_schedule_thread(id', state', v)
        /\ \A v \in Tids : SlotIsFree(v) /\ v # p => SlotIsFree(v)'
    BY <1>3, <1>4 DEF SwitchTo, can_schedule_thread, SlotIsFree
  <1>8. WaitsForNext(p)
    BY <1>1, <1>3, <1>4 DEF ShellInv, ChainInv
  <1>9. ASSUME NEW v \in Tids, v < p
        PROVE  WaitsForNext(v)'
    <2>1. v # c /\ v < c
      BY <1>4, <1>9 DEF Tids
    <2>2. WaitsForNext(v)
      BY <1>1, <1>3, <2>1 DEF ShellInv, ChainInv
    <2> QED
      BY <1>3, <1>6, <1>7, <2>1, <2>2 DEF WaitsForNext
  <1>10. ASSUME NEW v \in Tids, v <= p
         PROVE  child'[v] \in {INVALID_THREAD, v + 1}
    <2>1. v <= c
      BY <1>4, <1>10 DEF Tids
    <2> QED
      BY <1>1, <1>3, <2>1 DEF ShellInv, ChainInv
  <1>11. ASSUME NEW v \in Tids, v > p
         PROVE  SlotIsFree(v)'
    <2>1. v # p /\ (v > c \/ v = c)
      BY <1>4, <1>11 DEF Tids
    <2>2. SlotIsFree(v)
      BY <1>1, <1>2, <1>3, <1>5, <2>1 DEF ShellInv, ChainInv, SlotIsFree
    <2> QED
      BY <1>7, <2>1, <2>2
  <1>12. RunsOnTop(p)' /\ ~Starting(p)'
    BY <1>4, <1>6, <1>8 DEF RunsOnTop, Starting, WaitsForNext
  <1> QED
    BY <1>5, <1>6, <1>9, <1>10, <1>11, <1>12 DEF ChainInv


\* A program takes the place of its loader.
LEMMA LoadKeepsChain ==
    ASSUME ShellInv, ShellIsAt("load"), Restart({}), GoOn("start")
    PROVE  FramesOK' /\ ChainInv' /\ kernel' = "up"
  <1>1. PICK c \in Tids : c = current /\ kernel = "up" /\ kernel' = "up"
    BY WorkerIsLive DEF ShellInv, ShellIsAt, AtStage, Restart
  <1>2. /\ id' = [id EXCEPT ![c] = c] /\ state' = [state EXCEPT ![c] = "init"]
        /\ parent' = [parent EXCEPT ![c] = parent[c]]
        /\ child' = [child EXCEPT ![c] = INVALID_THREAD]
        /\ stage' = [stage EXCEPT ![c] = "work"] /\ current' = current
        /\ frame[c].place = "load"
    BY <1>1 DEF Restart, init_thread, ShellIsAt
  <1>3. /\ child'[c] = INVALID_THREAD /\ stage'[c] = "work" /\ parent' = parent
        /\ \A t \in Tids \ {c} : /\ id'[t] = id[t] /\ state'[t] = state[t]
                                 /\ stage'[t] = stage[t] /\ child'[t] = child[t]
    BY <1>2 DEF ShellInv, SafeInv, TypeOK
  <1>4. /\ FramesOK' /\ frame'[c].place = "start"
        /\ \A t \in Tids \ {c} : frame'[t] = frame[t]
    BY <1>1, GoOnGoes DEF ShellInv, GoOn, ShellPlaces
  <1>5. c # 0 /\ ~Starting(c)
    BY <1>1, <1>2 DEF ShellInv, ChainInv, RunsOnTop, Starting
  <1>6. RunsOnTop(c)' /\ ~Starting(c)'
    BY <1>3, <1>4, <1>5 DEF RunsOnTop, Starting
  <1> QED
    BY <1>1, <1>2, <1>3, <1>4, <1>5, <1>6, StayingKeepsChain DEF ShellInv

\* A command that has returned ends, step by step.
LEMMA CommandEndsKeepsChain ==
    ASSUME ShellInv, CommandEnds
    PROVE  FramesOK' /\ ChainInv' /\ kernel' = "up"
  <1>1. PICK c \in Tids : c = current /\ kernel = "up" /\ frame[c].place = "return"
    BY WorkerIsLive DEF ShellInv, CommandEnds
  <1>2. c # 0 /\ ~Starting(c)
    BY <1>1 DEF ShellInv, ChainInv, RunsOnTop, Starting
  <1>3. CASE CleanupThread \/ SetFinished
    <2>1. /\ UNCHANGED <<id, parent, child, current, kernel, frame>>
          /\ \/ stage' = [stage EXCEPT ![c] = "cleaned"] /\ state' = state
             \/ /\ stage' = [stage EXCEPT ![c] = "finished"]
                /\ state' = [state EXCEPT ![c] = "finished"]
      BY <1>1, <1>3 DEF CleanupThread, SetFinished, YieldAsm, AtStage, CommandEnds, family
    <2>2. /\ stage'[c] = "cleaned" \/ (stage'[c] = "finished" /\ state'[c] = "finished")
          /\ \A t \in Tids \ {c} : state'[t] = state[t] /\ stage'[t] = stage[t]
      BY <2>1 DEF ShellInv, SafeInv, TypeOK
    <2>3. RunsOnTop(c)' /\ ~Starting(c)'
      BY <1>1, <1>2, <2>1, <2>2 DEF RunsOnTop, Starting
    <2>4. child'[c] \in {INVALID_THREAD, c + 1}
      BY <1>1, <2>1 DEF ShellInv, ChainInv, Tids
    <2>5. ChainInv'
      BY <1>1, <1>2, <2>1, <2>2, <2>3, <2>4, StayingKeepsChain DEF ShellInv
    <2> QED
      BY <1>1, <2>1, <2>5 DEF ShellInv, FramesOK, IsFrame
  <1>4. CASE YieldAsm /\ frame' = [frame EXCEPT ![current] = NoFrame]
    BY <1>1, <1>4, EndedKeepsChain
  <1> QED
    BY <1>3, <1>4 DEF CommandEnds

\* The line changes, and the shell goes on reading.
LEMMA ReadingKeepsChain ==
    ASSUME ShellInv, kernel = "up", UNCHANGED <<vars, frame>>
    PROVE  FramesOK' /\ ChainInv'
  <1>1. PICK c \in Tids : c = current
    BY WorkerIsLive DEF ShellInv
  <1>2. UNCHANGED <<id, state, parent, child, stage, current, kernel, frame>>
    BY DEF vars
  <1>3. \A t \in Tids : /\ WaitsForNext(t)' <=> WaitsForNext(t)
                        /\ SlotIsFree(t)' <=> SlotIsFree(t)
                        /\ IsNext(c, t)' <=> IsNext(c, t)
    BY <1>2 DEF WaitsForNext, SlotIsFree, IsNext, can_schedule_thread
  <1>4. (RunsOnTop(c)' <=> RunsOnTop(c)) /\ (Starting(c)' <=> Starting(c))
    BY <1>2 DEF RunsOnTop, Starting
  <1> QED
    BY <1>1, <1>2, <1>3, <1>4 DEF ShellInv, ChainInv, FramesOK, IsFrame

\* The shell at its prompt reads the next line.
LEMMA PromptKeepsChain ==
    ASSUME ShellInv, Prompt
    PROVE  FramesOK' /\ ChainInv' /\ kernel' = "up"
  <1>1. PICK c \in Tids : /\ c = current /\ kernel = "up" /\ stage[c] = "work"
                          /\ frame[c].place = "prompt"
    BY WorkerIsLive DEF ShellInv, Prompt, ShellIsAt, AtStage
  <1>2. c = 0 /\ ~Starting(c)
    BY <1>1 DEF ShellInv, ChainInv, RunsOnTop, Starting
  <1>3. /\ UNCHANGED vars /\ frame' = [frame EXCEPT ![0] = Frame(<<>>, 0, 0, "reading")]
    BY DEF Prompt, infoVars
  <1>4. PICK f : f = Frame(<<>>, 0, 0, "reading")
    OBVIOUS
  <1>5. f.place = "reading" /\ IsFrame(f)
    BY <1>4 DEF Frame, IsFrame, ShellPlaces
  <1>6. /\ DOMAIN frame' = Tids /\ frame'[c] = f
        /\ \A t \in Tids \ {c} : frame'[t] = frame[t]
    BY <1>2, <1>3, <1>4 DEF ShellInv, FramesOK
  <1>7. FramesOK'
    BY <1>5, <1>6 DEF ShellInv, FramesOK, IsFrame
  <1>8. RunsOnTop(c)' /\ ~Starting(c)'
    BY <1>1, <1>2, <1>3, <1>5, <1>6 DEF RunsOnTop, Starting, vars
  <1>9. child'[c] \in {INVALID_THREAD, c + 1}
    BY <1>1, <1>3 DEF ShellInv, ChainInv, vars, family, Tids
  <1>10. ChainInv'
    BY <1>1, <1>2, <1>3, <1>6, <1>8, <1>9, StayingKeepsChain DEF ShellInv, vars, family
  <1> QED
    BY <1>1, <1>3, <1>7, <1>10 DEF vars

\* A command is started, or there is no slot for it.
LEMMA AddCommandKeepsChain ==
    ASSUME ShellInv, ShellIsAt("command") \/ ShellIsAt("start"),
           NEW name, NEW argc, NEW from, NEW place \in {"load", "start"},
           NEW otherwise \in ShellPlaces, otherwise = IF current = 0 THEN "prompt" ELSE "return",
           AddCommand(name, argc, from, place, otherwise)
    PROVE  FramesOK' /\ ChainInv' /\ kernel' = "up"
  <1>1. kernel = "up" /\ stage[current] = "work" /\ ~Starting(current)
    BY DEF ShellIsAt, AtStage, Starting
  <1>2. CASE \E t \in Tids :
                /\ Create(t)
                /\ frame' = [frame EXCEPT ![t] = Frame(name, argc, from, place),
                                          ![current].place = "adopt", ![current].tid = t]
    <2>1. PICK t \in Tids : /\ FirstFreeSlot(t) /\ AddThread({})
                            /\ FrameStarts(t, name, argc, from, place)
      BY <1>2 DEF Create, FrameStarts
    <2> QED
      BY <1>1, <2>1, CreateKeepsChain
  <1>3. CASE GoOn(otherwise) /\ UNCHANGED infoVars
    <2>1. UNCHANGED vars
      BY <1>3 DEF infoVars
    <2>2. otherwise \notin {"adopt", "yield"}
      OBVIOUS
    <2> QED
      BY <1>1, <1>3, <2>1, <2>2, GoingOnKeepsChain DEF vars
  <1> QED
    BY <1>2, <1>3 DEF AddCommand


\* The threads that the shell starts are threads of Threads.
LEMMA ShellThreadsStep ==
    ASSUME NoneRemoved, SafeInv, [ShellNext]_shellVars
    PROVE  SafeInv'
  <1>1. CASE \/ Start \/ Adopt \/ YieldToCommand \/ CommandEnds \/ UNCHANGED vars
             \/ \E status \in {"exit0", "exit1"} : Exit(status)
             \/ Restart({}) \/ \E t \in Tids : Create(t)
    <2>1. [Next]_vars
      BY <1>1 DEF NoneRemoved, Next, UserStep, ThreadEnd, Halted, Start, Create, Adopt,
                  YieldToCommand, CommandEnds, YieldTo, can_schedule_thread, SetChild,
                  CURRENT_THREAD, is_valid_thread
    <2> QED
      BY <2>1, SafeStep
  <1>2. CASE kernel' = "undefined" /\ UNCHANGED <<id, state, family, permissions, stage,
                                                  current, config>>
    BY <1>2 DEF SafeInv, TypeOK, OnlyCurrentRuns, CurrentIsLive, family, config
  <1> QED
    BY <1>1, <1>2
    DEF ShellNext, handle_char, handle_backspace, handle_end_of_text, handle_return, Leave,
        Prompt, Stop, do_command, RunCommand, AddCommand, load_elf, Command, Halted,
        infoVars, shellVars

\* Before the boot there are no threads.
LEMMA ShellStart == ShellInit => ShellInv
  <1> SUFFICES ASSUME ShellInit
               PROVE  ShellInv
    OBVIOUS
  <1>1. SafeInv /\ BootInv /\ kernel = "boot"
    BY SafeInit DEF ShellInit, InfoInit, Init, BootInv
  <1>2. PICK first : first = Frame(<<>>, 0, 0, "reading")
    OBVIOUS
  <1>3. PICK other : other = NoFrame
    OBVIOUS
  <1>4. first.place = "reading" /\ IsFrame(first) /\ IsFrame(other)
    BY <1>2, <1>3 DEF NoFrame, Frame, IsFrame, ShellPlaces
  <1>5. frame = [t \in Tids |-> IF t = 0 THEN first ELSE other]
    BY <1>2, <1>3 DEF ShellInit
  <1>6. 0 \in Tids
    BY MaxThreadsAssumption DEF Tids
  <1>7. FramesOK /\ frame[0].place = "reading"
    BY <1>4, <1>5, <1>6 DEF FramesOK
  <1> QED
    BY <1>1, <1>7 DEF ShellInv, ChainInv

\* Every step of the shell and its commands keeps the chain.
LEMMA ShellStep ==
    ASSUME NoneRemoved, ShellInv, [ShellNext]_shellVars
    PROVE  ShellInv'
  <1>1. SafeInv'
    BY ShellThreadsStep DEF ShellInv
  <1>2. CASE Start /\ UNCHANGED shell
    BY <1>1, <1>2, StartKeepsChain
  <1>3. CASE \/ \E ch \in Letters : handle_char(ch)
             \/ handle_backspace \/ handle_end_of_text
    <2>1. kernel = "up" /\ UNCHANGED <<vars, frame>>
      BY <1>3 DEF handle_char, handle_backspace, handle_end_of_text, ShellIsAt, AtStage,
                  infoVars
    <2> QED
      BY <1>1, <2>1, ReadingKeepsChain, UpKeepsShell DEF vars
  <1>4. CASE handle_return
    <2>1. CASE kernel' = "undefined" /\ UNCHANGED shell
      BY <1>1, <2>1, EndKeepsChain DEF shell
    <2>2. CASE \E place \in {"prompt", "command"} : GoOn(place) /\ UNCHANGED infoVars
      <3>1. kernel = "up" /\ stage[current] = "work" /\ frame[current].place = "reading"
        BY <1>4 DEF handle_return, ShellIsAt, AtStage
      <3>2. current = 0 /\ ~Starting(current)
        BY <3>1, WorkerIsLive DEF ShellInv, ChainInv, RunsOnTop, Starting
      <3>3. PICK place \in {"prompt", "command"} : GoOn(place) /\ UNCHANGED vars
        BY <2>2 DEF infoVars
      <3>4. FramesOK' /\ ChainInv'
        BY <3>1, <3>2, <3>3, GoingOnKeepsChain DEF ShellPlaces
      <3> QED
        BY <1>1, <3>1, <3>3, <3>4, UpKeepsShell DEF vars
    <2> QED
      BY <1>4, <2>1, <2>2 DEF handle_return
  <1>5. CASE Leave
    BY <1>1, <1>5, EndKeepsChain DEF Leave, Stop, Exit, shell
  <1>6. CASE Prompt
    BY <1>1, <1>6, PromptKeepsChain, UpKeepsShell
  <1>7. CASE do_command
    <2>1. /\ kernel = "up" /\ stage[current] = "work" /\ frame[current].place = "command"
          /\ ShellIsAt("command")
      BY <1>7 DEF do_command, ShellIsAt, AtStage
    <2>2. current = 0 /\ ~Starting(current)
      BY <2>1, WorkerIsLive DEF ShellInv, ChainInv, RunsOnTop, Starting
    <2>3. PICK name, argc : \/ \E place \in {"load", "start"} :
                                   AddCommand(name, argc, 0, place, "prompt")
                            \/ GoOn("prompt") /\ UNCHANGED infoVars
      BY <1>7 DEF do_command
    <2>4. "prompt" \in ShellPlaces
      BY DEF ShellPlaces
    <2>5. ASSUME NEW place \in {"load", "start"}, AddCommand(name, argc, 0, place, "prompt")
          PROVE  FramesOK' /\ ChainInv' /\ kernel' = "up"
      BY <2>1, <2>2, <2>4, <2>5, AddCommandKeepsChain
    <2>6. CASE GoOn("prompt") /\ UNCHANGED infoVars
      <3>1. FramesOK' /\ ChainInv' /\ kernel' = "up"
        BY <2>1, <2>2, <2>4, <2>6, GoingOnKeepsChain DEF infoVars, vars
      <3> QED
        BY <1>1, <3>1, UpKeepsShell
    <2> QED
      BY <1>1, <2>3, <2>5, <2>6, UpKeepsShell
  <1>8. CASE RunCommand \/ Command
    <2>1. /\ kernel = "up" /\ stage[current] = "work" /\ frame[current].place = "start"
          /\ ShellIsAt("start")
      BY <1>8 DEF RunCommand, Command, ShellIsAt, AtStage
    <2>2. current # 0 /\ ~Starting(current)
      BY <2>1, WorkerIsLive DEF ShellInv, ChainInv, RunsOnTop, Starting
    <2>3. \/ GoOn("return") /\ UNCHANGED infoVars
          \/ Stop("exit0")
          \/ \E name, argc, from : \E place \in {"load", "start"} :
                AddCommand(name, argc, from, place, "return")
      BY <1>8 DEF RunCommand, Command
    <2>4. "return" \in ShellPlaces
      BY DEF ShellPlaces
    <2>5. ASSUME NEW name, NEW argc, NEW from, NEW place \in {"load", "start"},
                 AddCommand(name, argc, from, place, "return")
          PROVE  FramesOK' /\ ChainInv' /\ kernel' = "up"
      BY <2>1, <2>2, <2>4, <2>5, AddCommandKeepsChain
    <2>6. CASE GoOn("return") /\ UNCHANGED infoVars
      <3>1. FramesOK' /\ ChainInv' /\ kernel' = "up"
        BY <2>1, <2>2, <2>4, <2>6, GoingOnKeepsChain DEF infoVars, vars
      <3> QED
        BY <1>1, <3>1, UpKeepsShell
    <2>7. CASE Stop("exit0")
      BY <1>1, <2>7, EndKeepsChain DEF Stop, Exit, shell
    <2> QED
      BY <1>1, <2>3, <2>5, <2>6, <2>7, UpKeepsShell
  <1>9. CASE Adopt
    BY <1>1, <1>9, AdoptKeepsChain, UpKeepsShell
  <1>10. CASE YieldToCommand
    BY <1>1, <1>10, YieldToKeepsChain, UpKeepsShell
  <1>11. CASE load_elf
    <2>1. CASE Stop("exit1")
      BY <1>1, <2>1, EndKeepsChain DEF Stop, Exit, shell
    <2>2. CASE Restart({}) /\ GoOn("start")
      BY <1>1, <1>11, <2>2, LoadKeepsChain, UpKeepsShell DEF load_elf
    <2> QED
      BY <1>11, <2>1, <2>2 DEF load_elf
  <1>12. CASE CommandEnds
    BY <1>1, <1>12, CommandEndsKeepsChain, UpKeepsShell
  <1>13. CASE UNCHANGED <<vars, frame>>
    <2>1. kernel' = kernel /\ frame' = frame /\ BootInv' /\ FramesOK'
      BY <1>13 DEF vars, ShellInv, BootInv, FramesOK, IsFrame
    <2>2. CASE kernel = "up"
      BY <1>1, <1>13, <2>1, <2>2, ReadingKeepsChain, UpKeepsShell
    <2>3. CASE kernel # "up"
      BY <1>1, <2>1, <2>3 DEF ShellInv, ChainInv
    <2> QED
      BY <2>2, <2>3
  <1> QED
    BY <1>2, <1>3, <1>4, <1>5, <1>6, <1>7, <1>8, <1>9, <1>10, <1>11, <1>12, <1>13
    DEF ShellNext, Halted, shellVars, infoVars, shell

\* The shell prompts and reads only when all that its last line started has
\* ended, for any number of slots and any line: commands run as a chain of
\* children, each waiting for the next (do_command, run_command, do_scheduler).
THEOREM CommandsEndFirst ==
    ASSUME NoneRemoved
    PROVE  ShellSpec => []PromptComesLast
  <1>1. ShellInit => ShellInv
    BY ShellStart
  <1>2. ShellInv /\ [ShellNext]_shellVars => ShellInv'
    BY ShellStep
  <1>3. ShellInv => PromptComesLast
    <2> SUFFICES ASSUME ShellInv, kernel = "up", current = 0,
                        frame[0].place \in {"prompt", "reading"},
                        NEW t \in Tids \ {0}
                 PROVE  SlotIsFree(t)
      BY DEF PromptComesLast
    <2>1. t > 0 /\ ~Starting(0)
      BY DEF Tids, Starting
    <2> QED
      BY <2>1 DEF ShellInv, ChainInv
  <1> QED
    BY <1>1, <1>2, <1>3, PTL DEF ShellSpec

----------------------------------------------------------------------------
(* How a line is split: its parts start where its words do.  A part gets    *)
(* the number that its word has by the starts up to there (Rank).           *)

StartsTo(text, i) == {j \in WordStarts(text) : j <= i}

Rank(text, i) == Cardinality(StartsTo(text, i))

\* What split_cmd_line has found up to character i.
FoundOK(text, i, found) ==
    /\ found.start \in 1 .. i + 1
    /\ \A k \in found.start .. i : text[k] # Space
    /\ found.start = 1 \/ text[found.start - 1] = Space
    /\ found.starts \in Seq(WordStarts(text))
    /\ Len(found.starts) = Rank(text, found.start - 1)
    /\ \A n \in 1 .. Len(found.starts) : Rank(text, found.starts[n]) = n

\* The words go up to a space or to the end of the line.
SplitsLine(text) ==
    LET starts == split_cmd_line(text)
        words == WordsOf(text)
    IN  /\ starts \in Seq(DOMAIN text) /\ words \in Seq(Seq(Letters))
        /\ Len(starts) = Len(words)
        /\ \A n \in DOMAIN words : \E end \in starts[n] .. Len(text) :
              /\ words[n] = SubSeq(text, starts[n], end)
              /\ \A i \in starts[n] .. end : text[i] # Space
              /\ end = Len(text) \/ text[end + 1] = Space

\* A set of numbers has a least one.
LEMMA HasLeast ==
    ASSUME NEW S \in SUBSET Nat, S # {}
    PROVE  \E x \in S : \A y \in S : x <= y
  <1> DEFINE Less == {pair \in Nat \X Nat : pair[1] < pair[2]}
  <1>1. IsWellFoundedOn(Less, Nat)
    BY NatLessThanWellFounded DEF OpToRel
  <1>2. \A a, b \in Nat : <<a, b>> \in Less <=> a < b
    OBVIOUS
  <1> HIDE DEF Less
  <1>3. PICK x \in S : \A y \in S : <<y, x>> \notin Less
    BY <1>1, WFMin
  <1>4. ASSUME NEW y \in S
        PROVE  x <= y
    <2>1. x \in Nat /\ y \in Nat
      OBVIOUS
    <2>2. ~(y < x)
      BY <1>2, <1>3, <2>1
    <2> QED
      BY <2>1, <2>2
  <1> QED
    BY <1>4

\* The loop of split_cmd_line goes through the line character by character.
LEMMA PartsAreFound ==
    ASSUME NEW text, NEW length \in Nat, length = Len(text)
    PROVE  /\ PartsFound(text)[0] = [starts |-> <<>>, start |-> 1]
           /\ \A i \in 1 .. length :
                 PartsFound(text)[i] = AfterChar(text, i, PartsFound(text)[i - 1])
  <1>1. PICK first : first = [starts |-> <<>>, start |-> 1]
    OBVIOUS
  <1> DEFINE Loop(n, f) ==
        f = [i \in 0 .. n |-> IF i = 0 THEN first ELSE AfterChar(text, i, f[i - 1])]
  <1> DEFINE Bad == {n \in Nat : ~\E f : Loop(n, f)}
  <1>2. ASSUME Bad # {}
        PROVE  FALSE
    <2>1. PICK n \in Bad : \A m \in Bad : n <= m
      <3>1. Bad \in SUBSET Nat
        OBVIOUS
      <3> HIDE DEF Bad
      <3> QED
        BY <1>2, <3>1, HasLeast
    <2>2. n # 0
      <3>1. PICK f : f = [i \in 0 .. 0 |-> first]
        OBVIOUS
      <3>2. Loop(0, f)
        BY <3>1
      <3> QED
        BY <2>1, <3>2
    <2>3. n \in Nat /\ n - 1 \in Nat /\ ~(n <= n - 1)
      BY <2>1, <2>2
    <2>4. PICK f : Loop(n - 1, f)
      BY <2>1, <2>3
    <2>5. PICK g : g = [i \in 0 .. n |-> IF i = n THEN AfterChar(text, n, f[n - 1]) ELSE f[i]]
      OBVIOUS
    <2>6. \A i \in 0 .. n - 1 : g[i] = f[i]
      BY <2>3, <2>5
    <2>7. \A i \in 0 .. n : g[i] = IF i = 0 THEN first ELSE AfterChar(text, i, g[i - 1])
      <3> TAKE i \in 0 .. n
      <3>1. CASE i = n
        <4>1. g[i] = AfterChar(text, i, f[i - 1]) /\ i # 0
          BY <2>2, <2>5, <3>1
        <4>2. g[i - 1] = f[i - 1]
          BY <2>3, <2>6, <3>1
        <4> QED
          BY <4>1, <4>2
      <3>2. CASE i # n
        <4>1. i \in 0 .. n - 1 /\ (i # 0 => i - 1 \in 0 .. n - 1)
          BY <2>3, <3>2
        <4>2. f[i] = IF i = 0 THEN first ELSE AfterChar(text, i, f[i - 1])
          BY <2>4, <4>1
        <4> QED
          BY <2>6, <4>1, <4>2
      <3> QED
        BY <3>1, <3>2
    <2>8. Loop(n, g)
      BY <2>5, <2>7
    <2> QED
      BY <2>1, <2>8
  <1>3. PICK f : Loop(length, f)
    BY <1>2
  <1>4. Loop(length, PartsFound(text))
    BY <1>1, <1>3 DEF PartsFound
  <1> QED
    BY <1>1, <1>4

\* No more starts than characters.
LEMMA StartsAreFew ==
    ASSUME NEW text, NEW length \in Nat, DOMAIN text = 1 .. length, NEW i
    PROVE  /\ WordStarts(text) \subseteq 1 .. length /\ StartsTo(text, i) \subseteq 1 .. length
           /\ IsFiniteSet(StartsTo(text, i)) /\ Rank(text, i) \in Nat
  <1>1. WordStarts(text) \subseteq 1 .. length /\ StartsTo(text, i) \subseteq 1 .. length
    BY DEF WordStarts, StartsTo
  <1>2. IsFiniteSet(1 .. length)
    BY FS_Interval
  <1> QED
    BY <1>1, <1>2, FS_Subset, FS_CardinalityType DEF Rank

\* Starts with the same number are the same.
LEMMA RanksDiffer ==
    ASSUME NEW text, NEW length \in Nat, DOMAIN text = 1 .. length,
           NEW i \in WordStarts(text), NEW j \in WordStarts(text), i < j
    PROVE  Rank(text, i) # Rank(text, j)
  <1>1. i \in Nat /\ j \in Nat /\ WordStarts(text) \subseteq Nat
    BY StartsAreFew
  <1>2. StartsTo(text, i) \subseteq StartsTo(text, j)
    BY <1>1 DEF StartsTo
  <1>3. j \in StartsTo(text, j) /\ j \notin StartsTo(text, i)
    BY <1>1 DEF StartsTo
  <1> QED
    BY <1>2, <1>3, StartsAreFew, FS_Subset DEF Rank

\* Where a word starts, the number goes up by one.
LEMMA RankOfStart ==
    ASSUME NEW text, NEW length \in Nat, DOMAIN text = 1 .. length, NEW i \in WordStarts(text)
    PROVE  Rank(text, i) = Rank(text, i - 1) + 1
  <1>1. i \in Nat /\ WordStarts(text) \subseteq Nat
    BY StartsAreFew
  <1>2. StartsTo(text, i) = StartsTo(text, i - 1) \cup {i} /\ i \notin StartsTo(text, i - 1)
    BY <1>1 DEF StartsTo
  <1> QED
    BY <1>2, StartsAreFew, FS_AddElement DEF Rank

\* Up to i nothing has started since from, where no word did.
LEMMA RankStays ==
    ASSUME NEW text, NEW length \in Nat, DOMAIN text = 1 .. length,
           NEW i \in Nat, NEW from \in Nat,
           from <= i, \A j \in from + 1 .. i : j \notin WordStarts(text)
    PROVE  Rank(text, i) = Rank(text, from) /\ StartsTo(text, i) = StartsTo(text, from)
  <1>1. WordStarts(text) \subseteq Nat
    BY StartsAreFew
  <1>2. StartsTo(text, i) = StartsTo(text, from)
    BY <1>1 DEF StartsTo
  <1> QED
    BY <1>2 DEF Rank

\* Each character leaves what has been found right.
LEMMA CharKeepsFound ==
    ASSUME NEW text, NEW length \in Nat, DOMAIN text = 1 .. length,
           NEW i \in 1 .. length, NEW found, FoundOK(text, i - 1, found)
    PROVE  FoundOK(text, i, AfterChar(text, i, found))
  <1>1. CASE text[i] # Space
    BY <1>1 DEF AfterChar, FoundOK
  <1>2. CASE text[i] = Space
    <2>1. PICK start \in 1 .. i : start = found.start
      BY DEF FoundOK
    <2>2. PICK starts \in Seq(WordStarts(text)) : starts = found.starts
      BY DEF FoundOK
    <2>3. /\ \A k \in start .. i - 1 : text[k] # Space
          /\ start = 1 \/ text[start - 1] = Space
          /\ Len(starts) = Rank(text, start - 1)
          /\ \A n \in 1 .. Len(starts) : Rank(text, starts[n]) = n
      BY <2>1, <2>2 DEF FoundOK
    <2>4. \A j \in start + 1 .. i : j \notin WordStarts(text)
      BY <1>2, <2>1, <2>3 DEF WordStarts
    <2>5. CASE i = start
      <3>1. AfterChar(text, i, found) = [starts |-> starts, start |-> i + 1]
        BY <1>2, <2>1, <2>2, <2>5 DEF AfterChar
      <3>2. i - 1 \in Nat /\ i \in Nat /\ \A j \in i - 1 + 1 .. i : j \notin WordStarts(text)
        BY <1>2 DEF WordStarts
      <3>3. Rank(text, i) = Rank(text, i - 1)
        BY <3>2, RankStays
      <3> QED
        BY <1>2, <2>3, <2>5, <3>1, <3>3 DEF FoundOK
    <2>6. CASE i # start
      <3>1. AfterChar(text, i, found) = [starts |-> Append(starts, start), start |-> i + 1]
        BY <1>2, <2>1, <2>2, <2>6 DEF AfterChar
      <3>2. start \in WordStarts(text)
        BY <2>1, <2>3, <2>6 DEF WordStarts
      <3>3. Rank(text, start) = Len(starts) + 1
        BY <2>3, <3>2, RankOfStart
      <3>4. Rank(text, i) = Rank(text, start)
        BY <2>1, <2>4, RankStays
      <3>5. PICK n \in Nat : n = Len(starts)
        BY LenProperties
      <3>6. PICK new : new = Append(starts, start)
        OBVIOUS
      <3>7. /\ new \in Seq(WordStarts(text)) /\ Len(new) = n + 1
            /\ \A m \in 1 .. n : new[m] = starts[m]
            /\ new[n + 1] = start
        BY <3>2, <3>5, <3>6, AppendProperties
      <3>8. \A m \in 1 .. n + 1 : Rank(text, new[m]) = m
        <4> TAKE m \in 1 .. n + 1
        <4>1. CASE m = n + 1
          BY <3>3, <3>5, <3>7, <4>1
        <4>2. CASE m \in 1 .. n
          BY <2>3, <3>5, <3>7, <4>2
        <4> QED
          BY <4>1, <4>2
      <3>9. FoundOK(text, i, [starts |-> new, start |-> i + 1])
        BY <1>2, <3>3, <3>4, <3>5, <3>7, <3>8 DEF FoundOK
      <3> QED
        BY <3>1, <3>6, <3>9
    <2> QED
      BY <2>5, <2>6
  <1> QED
    BY <1>1, <1>2

\* What has been found after each character is right.
LEMMA FoundIsRight ==
    ASSUME NEW text, NEW length \in Nat, DOMAIN text = 1 .. length, length = Len(text)
    PROVE  FoundOK(text, length, PartsFound(text)[length])
  <1> DEFINE Bad == {i \in 0 .. length : ~FoundOK(text, i, PartsFound(text)[i])}
  <1>1. ASSUME Bad # {}
        PROVE  FALSE
    <2>1. PICK i \in Bad : \A j \in Bad : i <= j
      <3>1. Bad \in SUBSET Nat
        OBVIOUS
      <3> HIDE DEF Bad
      <3> QED
        BY <1>1, <3>1, HasLeast
    <2>2. i # 0
      <3>1. PICK found : found = PartsFound(text)[0]
        OBVIOUS
      <3>2. found.starts = <<>> /\ found.start = 1
        BY <3>1, PartsAreFound
      <3>3. Rank(text, 0) = 0
        <4>1. WordStarts(text) \subseteq 1 .. length
          BY StartsAreFew
        <4>2. StartsTo(text, 0) = {}
          BY <4>1 DEF StartsTo
        <4> QED
          BY <4>2, FS_EmptySet DEF Rank
      <3>4. <<>> \in Seq(WordStarts(text)) /\ Len(<<>>) = 0
        BY EmptySeq
      <3>5. FoundOK(text, 0, found)
        BY <3>2, <3>3, <3>4 DEF FoundOK
      <3> QED
        BY <2>1, <3>1, <3>5
    <2>3. i \in 1 .. length /\ i - 1 \in 0 .. length /\ ~(i <= i - 1)
      BY <2>1, <2>2
    <2>4. FoundOK(text, i - 1, PartsFound(text)[i - 1])
      BY <2>1, <2>3
    <2>5. FoundOK(text, i, PartsFound(text)[i])
      BY <2>3, <2>4, CharKeepsFound, PartsAreFound
    <2> QED
      BY <2>1, <2>5
  <1> QED
    BY <1>1

\* The parts of a line are its starts, in their order.
LEMMA PartsAreStarts ==
    ASSUME NEW text, NEW length \in Nat, DOMAIN text = 1 .. length, length = Len(text)
    PROVE  /\ split_cmd_line(text) \in Seq(WordStarts(text))
           /\ Len(split_cmd_line(text)) = Cardinality(WordStarts(text))
           /\ \A n \in 1 .. Len(split_cmd_line(text)) : Rank(text, split_cmd_line(text)[n]) = n
  <1>1. PICK found : found = PartsFound(text)[length] /\ FoundOK(text, length, found)
    BY FoundIsRight
  <1>2. PICK start \in 1 .. length + 1 : start = found.start
    BY <1>1 DEF FoundOK
  <1>3. PICK starts \in Seq(WordStarts(text)) : starts = found.starts
    BY <1>1 DEF FoundOK
  <1>4. /\ \A k \in start .. length : text[k] # Space
        /\ start = 1 \/ text[start - 1] = Space
        /\ Len(starts) = Rank(text, start - 1)
        /\ \A n \in 1 .. Len(starts) : Rank(text, starts[n]) = n
    BY <1>1, <1>2, <1>3 DEF FoundOK
  <1>5. \A j \in start + 1 .. length : j \notin WordStarts(text)
    BY <1>2, <1>4 DEF WordStarts
  <1>6. WordStarts(text) = StartsTo(text, length)
    <2>1. WordStarts(text) \subseteq 1 .. length
      BY StartsAreFew
    <2> QED
      BY <2>1 DEF StartsTo
  <1>7. CASE start <= length
    <2>1. split_cmd_line(text) = Append(starts, start)
      BY <1>1, <1>2, <1>3, <1>7 DEF split_cmd_line
    <2>2. start \in WordStarts(text)
      BY <1>2, <1>4, <1>7 DEF WordStarts
    <2>3. Rank(text, start) = Len(starts) + 1
      BY <1>4, <2>2, RankOfStart
    <2>4. Cardinality(WordStarts(text)) = Rank(text, start)
      <3>1. start \in Nat
        BY <1>2
      <3>2. StartsTo(text, length) = StartsTo(text, start)
        BY <1>5, <1>7, <3>1, RankStays
      <3> QED
        BY <1>6, <3>2 DEF Rank
    <2>5. PICK n \in Nat : n = Len(starts)
      BY LenProperties
    <2>6. PICK new : new = Append(starts, start)
      OBVIOUS
    <2>7. /\ new \in Seq(WordStarts(text)) /\ Len(new) = n + 1
          /\ \A m \in 1 .. n : new[m] = starts[m]
          /\ new[n + 1] = start
      BY <2>2, <2>5, <2>6, AppendProperties
    <2>8. \A m \in 1 .. n + 1 : Rank(text, new[m]) = m
      <3> TAKE m \in 1 .. n + 1
      <3>1. CASE m = n + 1
        BY <2>3, <2>5, <2>7, <3>1
      <3>2. CASE m \in 1 .. n
        BY <1>4, <2>5, <2>7, <3>2
      <3> QED
        BY <3>1, <3>2
    <2> QED
      BY <2>1, <2>3, <2>4, <2>5, <2>6, <2>7, <2>8
  <1>8. CASE ~(start <= length)
    <2>1. split_cmd_line(text) = starts
      BY <1>1, <1>2, <1>3, <1>8 DEF split_cmd_line
    <2>2. start - 1 = length
      BY <1>2, <1>8
    <2> QED
      BY <1>4, <1>6, <2>1, <2>2 DEF Rank
  <1> QED
    BY <1>7, <1>8

\* A word ends.
LEMMA WordEnds ==
    ASSUME NEW text \in Seq(Letters), NEW i \in WordStarts(text)
    PROVE  /\ WordAt(text, i) \in Seq(Letters)
           /\ \E end \in i .. Len(text) :
                 /\ WordAt(text, i) = SubSeq(text, i, end)
                 /\ \A k \in i .. end : text[k] # Space
                 /\ end = Len(text) \/ text[end + 1] = Space
  <1>1. PICK length \in Nat : length = Len(text) /\ DOMAIN text = 1 .. length
    BY LenProperties
  <1>2. i \in 1 .. length /\ text[i] # Space
    BY <1>1 DEF WordStarts
  <1> DEFINE Ends == {j \in i .. length : j = length \/ text[j + 1] = Space}
  <1>3. PICK end \in Ends : \A j \in Ends : end <= j
    <2>1. Ends \in SUBSET Nat /\ length \in Ends
      BY <1>2
    <2> HIDE DEF Ends
    <2> QED
      BY <2>1, HasLeast
  <1>4. ASSUME NEW k \in i .. end
        PROVE  text[k] # Space
    <2>1. CASE k = i
      BY <1>2, <2>1
    <2>2. CASE k # i
      <3>1. k - 1 \in i .. length /\ ~(end <= k - 1) /\ k - 1 # length /\ k - 1 + 1 = k
        BY <1>2, <1>3, <2>2
      <3> QED
        BY <1>3, <3>1
    <2> QED
      BY <2>1, <2>2
  <1> DEFINE IsEnd(j) == (\A k \in i .. j : text[k] # Space) /\ (j = length \/ text[j + 1] = Space)
  <1>5. PICK last : last = CHOOSE j \in i .. length : IsEnd(j)
    OBVIOUS
  <1>6. last \in i .. length /\ IsEnd(last)
    BY <1>3, <1>4, <1>5
  <1>7. WordAt(text, i) = SubSeq(text, i, last)
    BY <1>1, <1>5 DEF WordAt
  <1>8. SubSeq(text, i, last) \in Seq(Letters)
    <2>1. \A k \in i .. last : text[k] \in Letters
      BY <1>1, <1>2, <1>6, ElementOfSeq
    <2> QED
      BY <1>2, <1>6, <2>1, SubSeqProperties
  <1> QED
    BY <1>1, <1>6, <1>7, <1>8

\* A line splits at its words.
LEMMA LineSplits ==
    ASSUME NEW text \in Seq(Letters)
    PROVE  SplitsLine(text)
  <1>1. PICK length \in Nat : length = Len(text) /\ DOMAIN text = 1 .. length
    BY LenProperties
  <1>2. PICK starts : starts = split_cmd_line(text)
    OBVIOUS
  <1>3. PICK count \in Nat : count = Len(starts)
    BY <1>1, <1>2, PartsAreStarts, LenProperties
  <1>4. /\ starts \in Seq(WordStarts(text))
        /\ count = Cardinality(WordStarts(text))
        /\ \A n \in 1 .. count : starts[n] \in WordStarts(text) /\ Rank(text, starts[n]) = n
    BY <1>1, <1>2, <1>3, PartsAreStarts, ElementOfSeq
  <1> DEFINE Nth(n) ==
        CHOOSE i \in WordStarts(text) : Cardinality({j \in WordStarts(text) : j <= i}) = n
  <1>5. ASSUME NEW n \in 1 .. count
        PROVE  Nth(n) = starts[n]
    <2>1. PICK i : i = Nth(n)
      OBVIOUS
    <2>2. i \in WordStarts(text) /\ Rank(text, i) = n
      BY <1>4, <2>1 DEF Rank, StartsTo
    <2>3. PICK k \in WordStarts(text) : k = starts[n] /\ Rank(text, k) = n
      BY <1>4
    <2>4. i \in Nat /\ k \in Nat
      BY <1>1, <2>2, StartsAreFew
    <2>5. ~(i < k) /\ ~(k < i)
      BY <1>1, <2>2, <2>3, RanksDiffer
    <2>6. i = k
      BY <2>4, <2>5
    <2> QED
      BY <2>1, <2>3, <2>6
  <1>6. PICK words : words = WordsOf(text)
    OBVIOUS
  <1>7. words = [n \in 1 .. count |-> WordAt(text, Nth(n))]
    BY <1>4, <1>6 DEF WordsOf
  <1>8. DOMAIN words = 1 .. count /\ \A n \in 1 .. count : words[n] = WordAt(text, starts[n])
    BY <1>5, <1>7
  <1>9. words \in Seq(Seq(Letters)) /\ Len(words) = count
    <2>1. PICK S : S = Seq(Letters)
      OBVIOUS
    <2>2. words \in [1 .. count -> S]
      BY <1>4, <1>7, <1>8, <2>1, WordEnds
    <2> QED
      BY <2>1, <2>2
  <1>10. starts \in Seq(DOMAIN text)
    BY <1>1, <1>4, StartsAreFew
  <1>11. ASSUME NEW n \in DOMAIN words
         PROVE  \E end \in starts[n] .. Len(text) :
                    /\ words[n] = SubSeq(text, starts[n], end)
                    /\ \A i \in starts[n] .. end : text[i] # Space
                    /\ end = Len(text) \/ text[end + 1] = Space
    BY <1>4, <1>8, WordEnds
  <1> QED
    BY <1>2, <1>3, <1>6, <1>9, <1>10, <1>11 DEF SplitsLine

----------------------------------------------------------------------------
(* What the commands find in the line.  It stays in cmd_line, cut into the  *)
(* words, and each command has a number of them from the last one back.     *)

\* The words of the line.
Words == WordsOf(line)

\* As it is typed, the line is in cmd_line.
IsTyped == Len(line) = pos /\ \A i \in 1 .. pos : cmd_line[i] = line[i]

\* Split, it is there with an end after each word.
IsSplit ==
    /\ parts = split_cmd_line(line)
    /\ \A i \in 1 .. Len(line) : cmd_line[i] = IF line[i] = Space THEN NUL ELSE line[i]
    /\ Len(line) < MAX_CMD_LINE => cmd_line[Len(line) + 1] = NUL
    /\ frame[0].place = "command" => parts # <<>>

LineInv ==
    /\ pos \in 0 .. MAX_CMD_LINE
    /\ cmd_line \in [1 .. MAX_CMD_LINE -> Letters \cup {NUL}]
    /\ line \in Seq(Letters) /\ Len(line) <= MAX_CMD_LINE
    /\ frame[0].place = "reading" => IsTyped
    /\ frame[0].place # "reading" => IsSplit

\* A command has the last words of the line, and before them are only runs.
HasWords(f) ==
    /\ f.argc \in Nat \ {0} /\ f.argv \in Nat
    /\ f.argv + f.argc = Len(parts)
    /\ f.name = Words[f.argv + 1]
    /\ \A n \in 1 .. f.argv : Words[n] = run

CommandOK(t) ==
    frame[t] # NoFrame =>
        /\ frame[0].place # "reading"
        /\ t <= current \/ (t = current + 1 /\ Starting(current))
        /\ HasWords(frame[t])

WordsInv ==
    /\ ShellInv
    /\ kernel \in {"boot", "up"} => LineInv /\ \A t \in Tids \ {0} : CommandOK(t)

\* The string at the start of a part is the word of the line.
LEMMA WordIsFound ==
    ASSUME LineInv, frame[0].place # "reading", NEW n \in 1 .. Len(Words)
    PROVE  StringAt(parts[n]) = Words[n]
  <1>1. IsSplit /\ line \in Seq(Letters) /\ Len(line) \in Nat /\ Len(line) <= MAX_CMD_LINE
        /\ cmd_line \in [1 .. MAX_CMD_LINE -> Letters \cup {NUL}]
        /\ DOMAIN line = 1 .. Len(line)
    BY LenProperties DEF LineInv
  <1>2. SplitsLine(line) /\ parts = split_cmd_line(line)
    BY <1>1, LineSplits DEF IsSplit
  <1>3. PICK starts : starts = split_cmd_line(line)
    OBVIOUS
  <1>4. PICK words : words = WordsOf(line)
    OBVIOUS
  <1>5. /\ starts \in Seq(DOMAIN line) /\ words \in Seq(Seq(Letters))
        /\ Len(starts) = Len(words)
        /\ \A m \in DOMAIN words : \E end \in starts[m] .. Len(line) :
              /\ words[m] = SubSeq(line, starts[m], end)
              /\ \A i \in starts[m] .. end : line[i] # Space
              /\ end = Len(line) \/ line[end + 1] = Space
    BY <1>2, <1>3, <1>4 DEF SplitsLine
  <1>6. n \in DOMAIN words /\ starts[n] \in 1 .. Len(line)
    BY <1>1, <1>4, <1>5, LenProperties, ElementOfSeq DEF Words
  <1>7. PICK i : i = starts[n]
    OBVIOUS
  <1>8. PICK end \in i .. Len(line) :
              /\ words[n] = SubSeq(line, i, end)
              /\ \A j \in i .. end : line[j] # Space
              /\ end = Len(line) \/ line[end + 1] = Space
    BY <1>5, <1>6, <1>7
  <1>9. /\ i \in 1 .. MAX_CMD_LINE /\ end \in i .. MAX_CMD_LINE /\ MAX_CMD_LINE \in Nat
        /\ i \in Nat /\ end \in Nat
    <2>1. PICK last : last = Len(line)
      OBVIOUS
    <2>2. last \in Nat /\ last <= MAX_CMD_LINE /\ i \in 1 .. last /\ end \in i .. last
      BY <1>1, <1>6, <1>7, <2>1
    <2> QED
      BY ONLY <2>2, ShellAssumption
  <1>10. \A j \in i .. end : cmd_line[j] = line[j] /\ cmd_line[j] # NUL /\ cmd_line[j] \in Letters
    <2> TAKE j \in i .. end
    <2>1. j \in 1 .. Len(line)
      BY <1>1, <1>6, <1>7, <1>8
    <2>2. line[j] \in Letters
      BY <1>1, <2>1, ElementOfSeq
    <2> QED
      <3>1. line[j] # Space
        BY <1>8
      <3>2. cmd_line[j] = line[j]
        BY <1>1, <2>1, <3>1 DEF IsSplit
      <3> QED
        BY <2>2, <3>2, ShellAssumption
  <1>11. SubSeq(cmd_line, i, end) = words[n]
    <2>1. \A j \in i .. end : line[j] \in Letters
      BY <1>10
    <2>2. /\ SubSeq(cmd_line, i, end) \in Seq(Letters)
          /\ Len(SubSeq(cmd_line, i, end)) = IF i <= end THEN end - i + 1 ELSE 0
          /\ \A j \in 1 .. end - i + 1 : SubSeq(cmd_line, i, end)[j] = cmd_line[i + j - 1]
      BY <1>9, <1>10, SubSeqProperties
    <2>3. /\ SubSeq(line, i, end) \in Seq(Letters)
          /\ Len(SubSeq(line, i, end)) = IF i <= end THEN end - i + 1 ELSE 0
          /\ \A j \in 1 .. end - i + 1 : SubSeq(line, i, end)[j] = line[i + j - 1]
      BY <1>9, <2>1, SubSeqProperties
    <2>4. \A j \in 1 .. end - i + 1 : cmd_line[i + j - 1] = line[i + j - 1]
      BY <1>9, <1>10
    <2>5. \A j \in 1 .. Len(SubSeq(cmd_line, i, end)) :
              SubSeq(cmd_line, i, end)[j] = SubSeq(line, i, end)[j]
      BY <1>9, <2>2, <2>3, <2>4
    <2> QED
      BY <1>8, <2>2, <2>3, <2>5, SeqEqual
  <1>12. end < MAX_CMD_LINE => cmd_line[end + 1] = NUL
    <2>1. CASE end = Len(line)
      BY <1>1, <2>1 DEF IsSplit
    <2>2. CASE end # Len(line)
      <3>1. end + 1 \in 1 .. Len(line) /\ line[end + 1] = Space
        <4>1. PICK last : last = Len(line)
          OBVIOUS
        <4>2. end \in i .. last
          BY <1>1, <1>9, <4>1
        <4>3. last \in Nat /\ end # last
          <5>1. last \in Nat
            BY <1>1, <4>1
          <5> QED
            BY <2>2, <4>1, <5>1
        <4>4. i \in Nat /\ end \in Nat
          BY <1>9
        <4>5. end + 1 \in 1 .. last
          BY ONLY <4>2, <4>3, <4>4
        <4> QED
          BY <1>8, <2>2, <4>1, <4>5
      <3> QED
        BY <1>1, <3>1 DEF IsSplit
    <2> QED
      BY <2>1, <2>2
  <1>13. StringAt(i) = SubSeq(cmd_line, i, end)
    <2> DEFINE nuls == {j \in i .. MAX_CMD_LINE : cmd_line[j] = NUL}
    <2>1. SelectInSubSeq(cmd_line, i, MAX_CMD_LINE, LAMBDA c : c = NUL)
            = IF nuls # {} THEN Min(nuls) ELSE 0
      BY DEF SelectInSubSeq
    <2>2. CASE end = MAX_CMD_LINE
      <3>1. nuls = {}
        BY <1>9, <1>10, <2>2
      <3> QED
        BY <2>1, <2>2, <3>1 DEF StringAt
    <2>3. CASE end # MAX_CMD_LINE
      <3>1. end + 1 \in nuls /\ end < MAX_CMD_LINE
        BY <1>9, <1>12, <2>3
      <3>2. \A j \in nuls : end + 1 <= j
        BY <1>9, <1>10
      <3>3. Min(nuls) = end + 1
        BY <1>9, <3>1, <3>2 DEF Min
      <3>4. nuls # {} /\ end + 1 # 0 /\ end + 1 - 1 = end
        BY <1>9, <3>1
      <3> QED
        <4>1. PICK at : at = IF nuls # {} THEN Min(nuls) ELSE 0
          OBVIOUS
        <4>2. StringAt(i) = SubSeq(cmd_line, i, IF at = 0 THEN MAX_CMD_LINE ELSE at - 1)
          BY <2>1, <4>1 DEF StringAt
        <4> HIDE DEF nuls
        <4>3. at = end + 1
          BY <3>3, <3>4, <4>1
        <4>4. (IF at = 0 THEN MAX_CMD_LINE ELSE at - 1) = end
          BY <3>4, <4>3
        <4> QED
          BY <4>2, <4>4
    <2> QED
      BY <2>2, <2>3
  <1> QED
    BY <1>2, <1>3, <1>4, <1>7, <1>11, <1>13 DEF Words


\* The last words of some, as a sequence of their own.
LEMMA LastWords ==
    ASSUME NEW S, NEW words \in Seq(S), NEW k \in Nat, NEW m \in Nat \ {0}, k + m = Len(words),
           NEW found \in Seq(S), Len(found) = m, \A n \in 1 .. m : found[n] = words[k + n]
    PROVE  /\ found # <<>> /\ Len(words) - Len(found) = k
           /\ Head(found) = words[k + 1]
           /\ IsSuffix(found, words)
  <1>1. \A n \in 1 .. Len(words) : words[n] \in S
    BY ElementOfSeq
  <1>2. DOMAIN found = 1 .. m
    BY LenProperties
  <1>3. found # <<>> /\ Len(words) - Len(found) = k
    BY <1>2, EmptySeq
  <1>4. Head(found) = words[k + 1]
    BY <1>2, <1>3
  <1>5. IsSuffix(found, words)
    <2>1. PICK back : back = Reverse(found)
      OBVIOUS
    <2>2. PICK all : all = Reverse(words)
      OBVIOUS
    <2>3. back = [i \in 1 .. m |-> found[m - i + 1]]
      BY <1>2, <2>1 DEF Reverse
    <2>4. all = [i \in 1 .. k + m |-> words[k + m - i + 1]]
      BY <2>2 DEF Reverse
    <2>5. \A i \in 1 .. m : back[i] \in S /\ back[i] = all[i] /\ all[i] \in S
      <3> TAKE i \in 1 .. m
      <3>1. m - i + 1 \in 1 .. m /\ i \in 1 .. k + m /\ k + m - i + 1 = k + (m - i + 1)
        OBVIOUS
      <3>2. back[i] = words[k + (m - i + 1)]
        BY <2>3, <3>1
      <3>3. all[i] = words[k + (m - i + 1)]
        BY <2>4, <3>1
      <3>4. k + (m - i + 1) \in 1 .. Len(words)
        BY <3>1
      <3> QED
        BY <1>1, <3>2, <3>3, <3>4
    <2>6. Len(back) = m /\ Len(all) = k + m
      <3>1. back \in Seq(S)
        BY <2>3, <2>5
      <3>2. \A i \in 1 .. k + m : k + m - i + 1 \in 1 .. Len(words)
        OBVIOUS
      <3>3. all \in [1 .. k + m -> S]
        BY <1>1, <2>4, <3>2
      <3> QED
        BY <2>3, <2>4, <3>1, <3>3
    <2>7. /\ SubSeq(back, 1, m) \in Seq(S) /\ Len(SubSeq(back, 1, m)) = m
          /\ \A i \in 1 .. m : SubSeq(back, 1, m)[i] = back[i]
      <3>1. \A i \in 1 .. m : back[i] \in S
        BY <2>5
      <3>2. 1 \in Int /\ m \in Int /\ 1 <= m /\ m - 1 + 1 = m
        OBVIOUS
      <3>3. /\ SubSeq(back, 1, m) \in Seq(S)
            /\ Len(SubSeq(back, 1, m)) = IF 1 <= m THEN m - 1 + 1 ELSE 0
            /\ \A i \in 1 .. m - 1 + 1 : SubSeq(back, 1, m)[i] = back[1 + i - 1]
        BY <3>1, <3>2, SubSeqProperties
      <3> QED
        BY <3>2, <3>3
    <2>8. /\ SubSeq(all, 1, m) \in Seq(S) /\ Len(SubSeq(all, 1, m)) = m
          /\ \A i \in 1 .. m : SubSeq(all, 1, m)[i] = all[i]
      <3>1. \A i \in 1 .. m : all[i] \in S
        BY <2>5
      <3>2. 1 \in Int /\ m \in Int /\ 1 <= m /\ m - 1 + 1 = m
        OBVIOUS
      <3>3. /\ SubSeq(all, 1, m) \in Seq(S)
            /\ Len(SubSeq(all, 1, m)) = IF 1 <= m THEN m - 1 + 1 ELSE 0
            /\ \A i \in 1 .. m - 1 + 1 : SubSeq(all, 1, m)[i] = all[1 + i - 1]
        BY <3>1, <3>2, SubSeqProperties
      <3> QED
        BY <3>2, <3>3
    <2>9. SubSeq(back, 1, m) = SubSeq(all, 1, m)
      BY <2>5, <2>7, <2>8, SeqEqual
    <2>10. Len(back) <= Len(all) /\ SubSeq(back, 1, Len(back)) = SubSeq(all, 1, Len(back))
      BY <2>6, <2>9
    <2>11. IsPrefix(back, all)
      BY <2>10 DEF IsPrefix
    <2> QED
      BY <2>1, <2>2, <2>11 DEF IsSuffix
  <1> QED
    BY <1>3, <1>4, <1>5

\* What the first words are.
LEMMA FirstWords ==
    ASSUME NEW words, NEW k \in Nat, NEW set, \A n \in 1 .. k : words[n] \in set
    PROVE  ToSet(SubSeq(words, 1, k)) \subseteq set
  <1>1. SubSeq(words, 1, k) \in Seq(set)
    BY SubSeqProperties
  <1> QED
    BY <1>1, LenProperties, ElementOfSeq DEF ToSet

\* A command that has its words finds them.
LEMMA WordsAreFound == ASSUME WordsInv PROVE CommandsGetTheirWords
  <1> SUFFICES ASSUME kernel = "up", NEW t \in Tids \ {0}, frame[t] # NoFrame
               PROVE  LET found == [n \in 1 .. frame[t].argc |-> argv(t, n - 1)]
                          words == WordsOf(line)
                          skipped == Len(words) - Len(found)
                      IN  /\ found # <<>>
                          /\ IsSuffix(found, words)
                          /\ Head(found) = frame[t].name
                          /\ ToSet(SubSeq(words, 1, skipped)) \subseteq {run}
    BY DEF CommandsGetTheirWords
  <1>1. LineInv /\ frame[0].place # "reading" /\ HasWords(frame[t])
    BY DEF WordsInv, CommandOK
  <1>2. /\ Words \in Seq(Seq(Letters)) /\ Len(parts) = Len(Words)
    BY <1>1, LineSplits DEF LineInv, IsSplit, SplitsLine, Words
  <1>3. PICK words : words = Words
    OBVIOUS
  <1>4. PICK k \in Nat, m \in Nat \ {0} : k = frame[t].argv /\ m = frame[t].argc
    BY <1>1 DEF HasWords
  <1>5. /\ words \in Seq(Seq(Letters)) /\ k + m = Len(words)
        /\ frame[t].name = words[k + 1] /\ \A n \in 1 .. k : words[n] \in {run}
    BY <1>1, <1>2, <1>3, <1>4 DEF HasWords
  <1>6. PICK found : found = [n \in 1 .. m |-> argv(t, n - 1)]
    OBVIOUS
  <1>7. ASSUME NEW n \in 1 .. m
        PROVE  argv(t, n - 1) = words[k + n]
    <2>1. k + n \in 1 .. Len(Words) /\ k + (n - 1) + 1 = k + n
      <3>1. k + n \in 1 .. k + m /\ k + (n - 1) + 1 = k + n
        BY ONLY k \in Nat, m \in Nat \ {0}, n \in 1 .. m
      <3>2. Len(Words) = k + m
        BY <1>3, <1>5
      <3> QED
        BY <3>1, <3>2
    <2>2. StringAt(parts[k + n]) = Words[k + n]
      BY <1>1, <2>1, WordIsFound
    <2> QED
      BY <1>3, <1>4, <2>1, <2>2 DEF argv
  <1>8. found = [n \in 1 .. m |-> words[k + n]]
    BY <1>6, <1>7
  <1>9. PICK S : S = Seq(Letters)
    OBVIOUS
  <1>10. /\ words \in Seq(S) /\ found \in Seq(S) /\ Len(found) = m
         /\ \A n \in 1 .. m : found[n] = words[k + n]
    <2>1. \A n \in 1 .. m : words[k + n] \in S
      <3> TAKE n \in 1 .. m
      <3>1. k + n \in 1 .. k + m
        BY ONLY k \in Nat, m \in Nat \ {0}, n \in 1 .. m
      <3> QED
        BY <1>5, <1>9, <3>1, ElementOfSeq
    <2>2. found \in [1 .. m -> S]
      BY <1>8, <2>1
    <2> QED
      BY <1>5, <1>8, <1>9, <2>2
  <1>11. /\ found # <<>> /\ Len(words) - Len(found) = k
        /\ Head(found) = words[k + 1]
        /\ IsSuffix(found, words)
        /\ ToSet(SubSeq(words, 1, k)) \subseteq {run}
    <2>1. ToSet(SubSeq(words, 1, k)) \subseteq {run}
      BY <1>5, FirstWords
    <2>2. /\ found # <<>> /\ Len(words) - Len(found) = k
          /\ Head(found) = words[k + 1]
          /\ IsSuffix(found, words)
      BY <1>5, <1>10, LastWords
    <2> QED
      BY <2>1, <2>2
  <1> QED
    BY <1>3, <1>4, <1>5, <1>6, <1>11 DEF Words


\* The shell reads, or looks for a command, only when it runs.
LEMMA ShellRuns ==
    ASSUME ShellInv, kernel = "up", frame[0].place \in {"reading", "command"}
    PROVE  current = 0
  <1>1. current \in Tids /\ 0 \in Tids
    BY WorkerIsLive, MaxThreadsAssumption DEF ShellInv, Tids
  <1>2. current # 0 => frame[0].place = "prompt"
    BY <1>1 DEF ShellInv, ChainInv, WaitsForNext, Tids
  <1> QED
    BY <1>2

\* While the shell reads there are no commands.
LEMMA ReadingIsAlone ==
    ASSUME WordsInv, kernel \in {"boot", "up"}, frame[0].place = "reading", NEW t \in Tids \ {0}
    PROVE  frame[t] = NoFrame
  BY DEF WordsInv, CommandOK

\* The line stays where it is until the shell reads again.
LEMMA LineStays ==
    ASSUME LineInv, UNCHANGED <<cmd_line, pos, parts, line>>, frame[0].place # "reading",
           frame'[0].place # "reading",
           frame'[0].place = "command" => frame[0].place = "command"
    PROVE  LineInv'
  BY DEF LineInv, IsSplit

\* A command keeps its words.
LEMMA CommandStays ==
    ASSUME UNCHANGED <<parts, line>>, NEW t, CommandOK(t),
           frame'[t] # NoFrame =>
               /\ frame[t] # NoFrame
               /\ frame'[t].name = frame[t].name
               /\ frame'[t].argc = frame[t].argc /\ frame'[t].argv = frame[t].argv
               /\ frame'[0].place # "reading"
               /\ t <= current' \/ (t = current' + 1 /\ Starting(current)')
    PROVE  CommandOK(t)'
  <1>1. NoFrame' = NoFrame /\ Words' = Words
    BY DEF NoFrame, Frame, Words, INVALID_THREAD
  <1> QED
    BY <1>1 DEF CommandOK, HasWords

\* A thread goes on, or the next one does.
LEMMA GoingOnKeepsWords ==
    ASSUME WordsInv, kernel = "up", NEW place \in ShellPlaces \ {"reading", "command"},
           frame[current].place # "reading", GoOn(place),
           UNCHANGED <<cmd_line, pos, parts, line>>,
           \A t \in Tids :
               t <= current \/ (t = current + 1 /\ Starting(current))
               => t <= current' \/ (t = current' + 1 /\ Starting(current)')
    PROVE  LineInv' /\ \A t \in Tids \ {0} : CommandOK(t)'
  <1>1. PICK c \in Tids : c = current
    BY WorkerIsLive DEF WordsInv, ShellInv
  <1>2. /\ frame'[c] = [frame[c] EXCEPT !.place = place]
        /\ \A t \in Tids \ {c} : frame'[t] = frame[t]
        /\ IsFrame(frame[c]) /\ 0 \in Tids
    BY <1>1, MaxThreadsAssumption DEF GoOn, WordsInv, ShellInv, FramesOK, Tids
  <1>3. /\ frame'[c].place = place /\ frame'[c].name = frame[c].name
        /\ frame'[c].argc = frame[c].argc /\ frame'[c].argv = frame[c].argv
    BY <1>2 DEF IsFrame
  <1>4. frame[c] # NoFrame
    <2>1. frame[c].place # "nowhere"
      BY <1>1 DEF WordsInv, ShellInv, ChainInv, RunsOnTop
    <2> QED
      BY <2>1 DEF NoFrame, Frame
  <1>5. frame[0].place # "reading" /\ frame'[0].place # "reading"
        /\ (frame'[0].place = "command" => frame[0].place = "command")
    <2>1. frame[0].place # "reading"
      BY <1>1, ShellRuns DEF WordsInv
    <2> QED
      BY <1>2, <1>3, <2>1
  <1>6. LineInv'
    BY <1>5, LineStays DEF WordsInv
  <1>7. ASSUME NEW t \in Tids \ {0}
        PROVE  CommandOK(t)'
    <2>1. CommandOK(t)
      BY DEF WordsInv
    <2>2. /\ frame'[t].name = frame[t].name
          /\ frame'[t].argc = frame[t].argc /\ frame'[t].argv = frame[t].argv
          /\ frame'[t] # NoFrame => frame[t] # NoFrame
      BY <1>2, <1>3, <1>4
    <2>3. frame[t] # NoFrame => t <= current \/ (t = current + 1 /\ Starting(current))
      BY <2>1 DEF CommandOK
    <2> QED
      BY <1>5, <2>1, <2>2, <2>3, CommandStays
  <1> QED
    BY <1>6, <1>7


\* Typing leaves the line as the user sees it in cmd_line.
LEMMA TypingKeepsWords ==
    ASSUME WordsInv, ShellInv', kernel = "up",
           (\E ch \in Letters : handle_char(ch)) \/ handle_backspace \/ handle_end_of_text
    PROVE  WordsInv'
  <1>1. UNCHANGED frame /\ frame[0].place = "reading"
    <2>1. UNCHANGED frame /\ frame[current].place = "reading"
      BY DEF handle_char, handle_backspace, handle_end_of_text, ShellIsAt
    <2>2. current = 0
      <3>1. current \in Tids
        BY WorkerIsLive DEF WordsInv, ShellInv
      <3> QED
        BY <2>1, <3>1 DEF WordsInv, ShellInv, ChainInv, RunsOnTop
    <2> QED
      BY <2>1, <2>2
  <1>2. \A t \in Tids \ {0} : CommandOK(t)'
    BY <1>1, ReadingIsAlone DEF CommandOK, NoFrame, Frame, INVALID_THREAD
  <1>3. /\ line \in Seq(Letters) /\ Len(line) = pos /\ pos \in 0 .. MAX_CMD_LINE
        /\ cmd_line \in [1 .. MAX_CMD_LINE -> Letters \cup {NUL}]
        /\ \A i \in 1 .. pos : cmd_line[i] = line[i]
        /\ MAX_CMD_LINE \in Nat
    BY <1>1, ShellAssumption DEF WordsInv, LineInv, IsTyped
  <1>4. PICK n \in 0 .. MAX_CMD_LINE : n = pos
    BY <1>3
  <1>5. CASE \E ch \in Letters : handle_char(ch)
    <2>1. PICK ch \in Letters : /\ pos < MAX_CMD_LINE /\ pos' = pos + 1
                                /\ cmd_line' = [cmd_line EXCEPT ![pos + 1] = ch]
                                /\ line' = Append(line, ch)
      BY <1>5 DEF handle_char
    <2>2. n + 1 \in 1 .. MAX_CMD_LINE /\ \A i \in 1 .. n + 1 : i \in 1 .. n \/ i = n + 1
      BY <1>3, <1>4, <2>1
    <2>3. /\ line' \in Seq(Letters) /\ Len(line') = n + 1
          /\ \A i \in 1 .. n : line'[i] = line[i]
          /\ line'[n + 1] = ch
      BY <1>3, <1>4, <2>1, AppendProperties
    <2>4. /\ cmd_line' \in [1 .. MAX_CMD_LINE -> Letters \cup {NUL}]
          /\ cmd_line'[n + 1] = ch
          /\ \A i \in 1 .. n : cmd_line'[i] = cmd_line[i]
      BY <1>3, <1>4, <2>1, <2>2
    <2>5. \A i \in 1 .. n + 1 : cmd_line'[i] = line'[i]
      BY <1>3, <1>4, <2>2, <2>3, <2>4
    <2>6. pos' = n + 1 /\ n + 1 <= MAX_CMD_LINE /\ n + 1 \in 0 .. MAX_CMD_LINE
      BY <1>3, <1>4, <2>1, <2>2
    <2>7. LineInv'
      BY <1>1, <2>3, <2>4, <2>5, <2>6 DEF LineInv, IsTyped
    <2> QED
      BY <1>2, <2>7 DEF WordsInv
  <1>6. CASE handle_backspace
    <2>1. pos # 0 /\ pos' = pos - 1 /\ cmd_line' = cmd_line /\ line' = Front(line)
      BY <1>6 DEF handle_backspace
    <2>2. PICK m \in Nat : m = n - 1 /\ m <= MAX_CMD_LINE
      BY <1>3, <1>4, <2>1
    <2>3. line' = SubSeq(line, 1, m)
      BY <1>3, <1>4, <2>1, <2>2 DEF Front
    <2>4. \A i \in 1 .. m : i \in 1 .. n /\ line[i] \in Letters
      BY <1>3, <1>4, <2>2, ElementOfSeq
    <2>5. /\ line' \in Seq(Letters) /\ Len(line') = m
          /\ \A i \in 1 .. m : line'[i] = line[i]
      BY <2>2, <2>3, <2>4, SubSeqProperties
    <2>6. pos' = m /\ m \in 0 .. MAX_CMD_LINE
      BY <1>3, <1>4, <2>1, <2>2
    <2>7. \A i \in 1 .. m : cmd_line'[i] = line'[i]
      BY <1>3, <1>4, <2>1, <2>4, <2>5
    <2>8. LineInv'
      BY <1>1, <1>3, <2>1, <2>2, <2>5, <2>6, <2>7 DEF LineInv, IsTyped
    <2> QED
      BY <1>2, <2>8 DEF WordsInv
  <1>7. CASE handle_end_of_text
    <2>1. pos' = 0 /\ cmd_line' = cmd_line /\ line' = <<>>
      BY <1>7 DEF handle_end_of_text
    <2>2. line' \in Seq(Letters) /\ Len(line') = 0 /\ 0 \in 0 .. MAX_CMD_LINE
      BY <1>3, <2>1, EmptySeq
    <2>3. LineInv'
      BY <1>1, <1>3, <2>1, <2>2 DEF LineInv, IsTyped
    <2> QED
      BY <1>2, <2>3 DEF WordsInv
  <1> QED
    BY <1>5, <1>6, <1>7

\* The line is empty when the shell reads the next one.
LEMMA PromptKeepsWords ==
    ASSUME WordsInv, ShellInv', Prompt
    PROVE  WordsInv'
  <1>1. PICK c \in Tids : /\ c = current /\ kernel = "up" /\ frame[c].place = "prompt"
    BY WorkerIsLive DEF WordsInv, ShellInv, Prompt, ShellIsAt, AtStage
  <1>2. c = 0 /\ ~Starting(c) /\ DOMAIN frame = Tids
    BY <1>1 DEF WordsInv, ShellInv, ChainInv, RunsOnTop, Starting, FramesOK
  <1>3. /\ pos' = 0 /\ line' = <<>> /\ cmd_line' = cmd_line
        /\ frame' = [frame EXCEPT ![0] = Frame(<<>>, 0, 0, "reading")]
    BY DEF Prompt
  <1>4. frame'[0].place = "reading" /\ \A t \in Tids \ {0} : frame'[t] = frame[t]
    BY <1>1, <1>2, <1>3 DEF Frame
  <1>5. \A t \in Tids \ {0} : frame[t] = NoFrame
    <2> TAKE t \in Tids \ {0}
    <2>1. ~(t <= c) /\ ~(t = c + 1 /\ Starting(c))
      BY <1>2 DEF Tids
    <2> QED
      BY <1>1, <2>1 DEF WordsInv, CommandOK
  <1>6. \A t \in Tids \ {0} : CommandOK(t)'
    BY <1>4, <1>5 DEF CommandOK, NoFrame, Frame, INVALID_THREAD
  <1>7. /\ line' \in Seq(Letters) /\ Len(line') = 0 /\ 0 \in 0 .. MAX_CMD_LINE
        /\ 0 <= MAX_CMD_LINE
    BY <1>3, EmptySeq, ShellAssumption
  <1>8. LineInv'
    BY <1>1, <1>3, <1>4, <1>7 DEF LineInv, IsTyped, WordsInv
  <1> QED
    BY <1>6, <1>8 DEF WordsInv


\* Enter splits the line.
LEMMA ReturnKeepsWords ==
    ASSUME WordsInv, ShellInv', handle_return
    PROVE  WordsInv'
  <1>1. CASE kernel' = "undefined"
    BY <1>1 DEF WordsInv
  <1>2. CASE kernel' # "undefined"
    <2>1. PICK c \in Tids : c = current /\ kernel = "up" /\ frame[c].place = "reading"
      BY WorkerIsLive DEF WordsInv, ShellInv, handle_return, ShellIsAt, AtStage
    <2>2. c = 0
      BY <2>1 DEF WordsInv, ShellInv, ChainInv, RunsOnTop
    <2>3. /\ line \in Seq(Letters) /\ Len(line) = pos /\ pos \in 0 .. MAX_CMD_LINE
          /\ cmd_line \in [1 .. MAX_CMD_LINE -> Letters \cup {NUL}]
          /\ \A i \in 1 .. pos : cmd_line[i] = line[i]
          /\ MAX_CMD_LINE \in Nat
      BY <2>1, <2>2, ShellAssumption DEF WordsInv, LineInv, IsTyped
    <2>4. PICK n \in Nat : n = pos /\ n <= MAX_CMD_LINE
      BY <2>3
    <2>5. SubSeq(cmd_line, 1, n) = line
      <3>1. \A i \in 1 .. n : cmd_line[i] \in Letters
        BY <2>3, <2>4, ElementOfSeq
      <3>2. /\ SubSeq(cmd_line, 1, n) \in Seq(Letters) /\ Len(SubSeq(cmd_line, 1, n)) = n
            /\ \A i \in 1 .. n : SubSeq(cmd_line, 1, n)[i] = cmd_line[i]
        BY <2>4, <3>1, SubSeqProperties
      <3> QED
        BY <2>3, <2>4, <3>2, SeqEqual
    <2>6. PICK starts : starts = split_cmd_line(line)
      OBVIOUS
    <2>7. /\ cmd_line' = [i \in 1 .. MAX_CMD_LINE |->
                            IF i = n + 1 \/ (i <= n /\ cmd_line[i] = Space)
                            THEN NUL ELSE cmd_line[i]]
          /\ pos' = 0 /\ parts' = starts /\ line' = line
          /\ GoOn(IF starts = <<>> THEN "prompt" ELSE "command")
      BY <1>2, <2>4, <2>5, <2>6 DEF handle_return
    <2>8. /\ frame'[0].place = IF starts = <<>> THEN "prompt" ELSE "command"
          /\ \A t \in Tids \ {0} : frame'[t] = frame[t]
      <3>1. PICK place \in ShellPlaces :
                /\ place = IF starts = <<>> THEN "prompt" ELSE "command"
                /\ frame' = [frame EXCEPT ![c].place = place]
        BY <2>1, <2>7 DEF GoOn, ShellPlaces
      <3> QED
        BY <2>2, <3>1, GoOnGoes DEF WordsInv, ShellInv
    <2>9. \A t \in Tids \ {0} : CommandOK(t)'
      BY <2>1, <2>2, <2>8, ReadingIsAlone DEF CommandOK, NoFrame, Frame, INVALID_THREAD
    <2>10. cmd_line' \in [1 .. MAX_CMD_LINE -> Letters \cup {NUL}]
      BY <2>3, <2>7
    <2>11. \A i \in 1 .. n : cmd_line'[i] = IF line[i] = Space THEN NUL ELSE line[i]
      <3> TAKE i \in 1 .. n
      <3>1. i \in 1 .. MAX_CMD_LINE /\ i # n + 1 /\ i <= n /\ cmd_line[i] = line[i]
        BY <2>3, <2>4
      <3> QED
        BY <2>7, <3>1
    <2>12. n < MAX_CMD_LINE => cmd_line'[n + 1] = NUL
      BY <2>3, <2>4, <2>7
    <2>13. IsSplit'
      BY <2>3, <2>4, <2>6, <2>7, <2>8, <2>11, <2>12 DEF IsSplit
    <2>14. LineInv'
      BY <2>3, <2>4, <2>7, <2>8, <2>10, <2>13 DEF LineInv
    <2> QED
      BY <2>9, <2>14 DEF WordsInv
  <1> QED
    BY <1>1, <1>2

\* A new command has words, and the others keep theirs.
LEMMA AddCommandKeepsWords ==
    ASSUME WordsInv, ShellInv', ShellIsAt("command") \/ ShellIsAt("start"),
           NEW argc \in Nat \ {0}, NEW from \in Nat, from + argc = Len(parts),
           NEW name, name = Words[from + 1], \A n \in 1 .. from : Words[n] = run,
           NEW place \in {"load", "start"}, NEW otherwise \in {"prompt", "return"},
           AddCommand(name, argc, from, place, otherwise)
    PROVE  WordsInv'
  <1>1. PICK c \in Tids : /\ c = current /\ kernel = "up" /\ ~SlotIsFree(c)
                          /\ frame[c].place \in {"command", "start"} /\ ~Starting(c)
    BY WorkerIsLive DEF WordsInv, ShellInv, Starting, ShellIsAt, AtStage
  <1>2. UNCHANGED <<cmd_line, pos, parts, line>>
    BY DEF AddCommand
  <1>3. CASE \E t \in Tids :
                /\ Create(t)
                /\ frame' = [frame EXCEPT ![t] = Frame(name, argc, from, place),
                                          ![current].place = "adopt", ![current].tid = t]
    <2>1. PICK t \in Tids : /\ SlotIsFree(t) /\ AddThread({})
                            /\ FrameStarts(t, name, argc, from, place)
      BY <1>3 DEF Create, FrameStarts, FirstFreeSlot
    <2>2. t # c
      BY <1>1, <2>1
    <2>3. PICK new : new = Frame(name, argc, from, place)
      OBVIOUS
    <2>4. /\ DOMAIN frame = Tids /\ IsFrame(frame[c])
          /\ frame' = [frame EXCEPT ![t] = new, ![c].place = "adopt", ![c].tid = t]
      BY <1>1, <2>1, <2>3 DEF FrameStarts, WordsInv, ShellInv, FramesOK
    <2>5. /\ frame'[t] = new /\ frame'[c].place = "adopt" /\ frame'[c].tid = t
          /\ frame'[c].name = frame[c].name
          /\ frame'[c].argc = frame[c].argc /\ frame'[c].argv = frame[c].argv
          /\ \A u \in Tids \ {c, t} : frame'[u] = frame[u]
      BY <2>2, <2>4 DEF IsFrame
    <2>6. new.name = name /\ new.argc = argc /\ new.argv = from /\ new.place = place
      BY <2>3 DEF Frame
    <2>7. current' = c /\ kernel' = "up"
      BY <1>1, <2>1 DEF AddThread
    <2>8. t = c + 1 /\ Starting(c)'
      BY <2>5, <2>7 DEF ShellInv, ChainInv, Starting, IsNext
    <2>9. frame[0].place # "reading" /\ frame'[0].place # "reading"
          /\ frame'[0].place # "command" /\ t # 0
      <3>1. 0 \in Tids /\ t # 0
        BY <2>8, MaxThreadsAssumption DEF Tids
      <3>2. frame[0].place \in {"reading", "command"} => c = 0
        BY <1>1, ShellRuns DEF WordsInv
      <3> QED
        BY <1>1, <2>5, <3>1, <3>2
    <2>10. LineInv'
      BY <1>1, <1>2, <2>9, LineStays DEF WordsInv
    <2>11. CommandOK(t)'
      <3>1. Words' = Words /\ parts' = parts
        BY <1>2 DEF Words
      <3>2. HasWords(frame[t])'
        BY <2>5, <2>6, <3>1 DEF HasWords
      <3> QED
        BY <2>7, <2>8, <2>9, <3>2 DEF CommandOK
    <2>12. ASSUME NEW u \in Tids \ {0}, u # t
           PROVE  CommandOK(u)'
      <3>1. CommandOK(u)
        BY <1>1 DEF WordsInv
      <3>2. frame[c] # NoFrame
        BY <1>1 DEF NoFrame, Frame
      <3>3. /\ frame'[u].name = frame[u].name
            /\ frame'[u].argc = frame[u].argc /\ frame'[u].argv = frame[u].argv
            /\ frame'[u] # NoFrame => frame[u] # NoFrame
        BY <2>5, <2>12, <3>2
      <3>4. frame[u] # NoFrame => u <= c
        BY <1>1, <3>1 DEF CommandOK
      <3> QED
        BY <1>2, <2>7, <2>9, <3>1, <3>3, <3>4, CommandStays
    <2> QED
      BY <2>10, <2>11, <2>12 DEF WordsInv
  <1>4. CASE GoOn(otherwise) /\ UNCHANGED infoVars
    <2>1. otherwise \in ShellPlaces \ {"reading", "command"}
      BY DEF ShellPlaces
    <2>2. current' = current /\ ~Starting(current)
      BY <1>1, <1>4 DEF infoVars, vars
    <2> QED
      BY <1>1, <1>2, <1>4, <2>1, <2>2, GoingOnKeepsWords DEF WordsInv
  <1> QED
    BY <1>3, <1>4 DEF AddCommand


\* The shell starts the first word of the line, with all of them.
LEMMA DoCommandKeepsWords ==
    ASSUME WordsInv, ShellInv', do_command
    PROVE  WordsInv'
  <1>1. PICK c \in Tids : c = current /\ kernel = "up" /\ frame[c].place = "command"
    BY WorkerIsLive DEF WordsInv, ShellInv, do_command, ShellIsAt, AtStage
  <1>2. c = 0
    BY <1>1 DEF WordsInv, ShellInv, ChainInv, RunsOnTop
  <1>3. LineInv /\ frame[0].place # "reading" /\ parts # <<>>
    BY <1>1, <1>2 DEF WordsInv, LineInv, IsSplit
  <1>4. Len(parts) \in Nat \ {0} /\ Len(Words) = Len(parts)
    <2>1. SplitsLine(line) /\ parts = split_cmd_line(line)
      BY <1>3, LineSplits DEF LineInv, IsSplit
    <2>2. parts \in Seq(DOMAIN line) /\ Len(parts) = Len(Words)
      BY <2>1 DEF SplitsLine, Words
    <2> QED
      BY <1>3, <2>2, EmptySeq
  <1>5. PICK name : name = StringAt(parts[1])
    OBVIOUS
  <1>6. PICK argc \in Nat \ {0} : argc = Len(parts) /\ 1 \in 1 .. Len(Words)
    BY <1>4
  <1>7. name = Words[1]
    BY <1>3, <1>5, <1>6, WordIsFound
  <1>8. \/ \E place \in {"load", "start"} : AddCommand(name, argc, 0, place, "prompt")
        \/ GoOn("prompt") /\ UNCHANGED <<infoVars, cmd_line, pos, parts, line>>
    BY <1>5, <1>6 DEF do_command
  <1>9. ASSUME NEW place \in {"load", "start"}, AddCommand(name, argc, 0, place, "prompt")
        PROVE  WordsInv'
    <2>1. ShellIsAt("command") /\ 0 \in Nat /\ 0 + argc = Len(parts) /\ name = Words[0 + 1]
          /\ \A n \in 1 .. 0 : Words[n] = run
      BY <1>6, <1>7 DEF do_command
    <2> QED
      BY <1>9, <2>1, AddCommandKeepsWords
  <1>10. CASE GoOn("prompt") /\ UNCHANGED <<infoVars, cmd_line, pos, parts, line>>
    <2>1. "prompt" \in ShellPlaces \ {"reading", "command"}
      BY DEF ShellPlaces
    <2>2. current' = current /\ ~Starting(current) /\ frame[current].place # "reading"
      BY <1>1, <1>10 DEF infoVars, vars, Starting
    <2> QED
      BY <1>1, <1>10, <2>1, <2>2, GoingOnKeepsWords DEF WordsInv
  <1> QED
    BY <1>8, <1>9, <1>10

\* A run starts its second word, with what is left of the line.
LEMMA RunKeepsWords ==
    ASSUME WordsInv, ShellInv', RunCommand
    PROVE  WordsInv'
  <1>1. PICK c \in Tids : /\ c = current /\ kernel = "up" /\ frame[c].place = "start"
                          /\ frame[c].name = run
    BY WorkerIsLive DEF WordsInv, ShellInv, RunCommand, ShellIsAt, AtStage
  <1>2. c # 0 /\ ~Starting(c) /\ frame[c].place # "reading"
    BY <1>1 DEF WordsInv, ShellInv, ChainInv, RunsOnTop, Starting
  <1>3. LineInv /\ frame[0].place # "reading" /\ HasWords(frame[c])
    <2>1. frame[c] # NoFrame
      BY <1>1 DEF NoFrame, Frame
    <2> QED
      BY <1>1, <1>2, <2>1 DEF WordsInv, CommandOK
  <1>4. Len(Words) = Len(parts)
    BY <1>3, LineSplits DEF LineInv, IsSplit, SplitsLine, Words
  <1>5. PICK m \in Nat \ {0}, k \in Nat : m = frame[c].argc /\ k = frame[c].argv
    BY <1>3 DEF HasWords
  <1>6. k + m = Len(parts) /\ Words[k + 1] = run /\ \A n \in 1 .. k : Words[n] = run
    BY <1>1, <1>3, <1>5 DEF HasWords
  <1>7. CASE m < 2
    <2>1. GoOn("return") /\ UNCHANGED <<infoVars, cmd_line, pos, parts, line>>
      BY <1>1, <1>5, <1>7 DEF RunCommand
    <2>2. "return" \in ShellPlaces \ {"reading", "command"}
      BY DEF ShellPlaces
    <2>3. current' = current
      BY <2>1 DEF infoVars, vars
    <2> QED
      BY <1>1, <1>2, <2>1, <2>2, <2>3, GoingOnKeepsWords DEF WordsInv
  <1>8. CASE ~(m < 2)
    <2>1. PICK name : name = argv(c, 1)
      OBVIOUS
    <2>2. PICK argc \in Nat \ {0}, from \in Nat :
              argc = m - 1 /\ from = k + 1 /\ from + argc = k + m /\ from + 1 \in 1 .. k + m
      BY <1>8
    <2>3. PICK place \in {"load", "start"} : AddCommand(name, argc, from, place, "return")
      BY <1>1, <1>5, <1>8, <2>1, <2>2 DEF RunCommand
    <2>4. name = Words[from + 1]
      <3>1. from + 1 = k + 1 + 1
        BY <2>2
      <3>2. StringAt(parts[from + 1]) = Words[from + 1]
        BY <1>3, <1>4, <1>6, <2>2, WordIsFound
      <3> QED
        BY <1>5, <2>1, <3>1, <3>2 DEF argv
    <2>5. \A n \in 1 .. from : Words[n] = run
      <3> TAKE n \in 1 .. from
      <3>1. n \in 1 .. k \/ n = k + 1
        BY <2>2
      <3> QED
        BY <1>6, <3>1
    <2>6. ShellIsAt("start") /\ from + argc = Len(parts)
      BY <1>6, <2>2 DEF RunCommand
    <2> QED
      BY <2>3, <2>4, <2>5, <2>6, AddCommandKeepsWords
  <1> QED
    BY <1>7, <1>8

\* A command that is off the processor has no words any more.
LEMMA CommandEndsKeepsWords ==
    ASSUME WordsInv, ShellInv', CommandEnds
    PROVE  WordsInv'
  <1>1. PICK c \in Tids : /\ c = current /\ kernel = "up" /\ frame[c].place = "return"
                          /\ ~Starting(c)
    BY WorkerIsLive DEF WordsInv, ShellInv, CommandEnds, Starting
  <1>2. c # 0 /\ frame[0].place # "reading" /\ UNCHANGED <<cmd_line, pos, parts, line>>
        /\ DOMAIN frame = Tids /\ 0 \in Tids
    BY <1>1, ShellRuns, MaxThreadsAssumption
    DEF WordsInv, ShellInv, ChainInv, RunsOnTop, CommandEnds, FramesOK, Tids
  <1>3. CASE UNCHANGED frame /\ current' = current
    <2>1. LineInv'
      BY <1>1, <1>2, <1>3, LineStays DEF WordsInv
    <2>2. ASSUME NEW t \in Tids \ {0}
          PROVE  CommandOK(t)'
      BY <1>1, <1>2, <1>3, CommandStays DEF WordsInv, CommandOK, Starting
    <2> QED
      BY <2>1, <2>2 DEF WordsInv
  <1>4. CASE YieldAsm /\ frame' = [frame EXCEPT ![current] = NoFrame]
    <2>1. c - 1 \in Tids /\ current' = c - 1
      BY <1>1, <1>4, EndedGoesToParent DEF WordsInv, SwitchTo
    <2>2. frame'[c] = NoFrame /\ \A t \in Tids \ {c} : frame'[t] = frame[t]
      BY <1>1, <1>2, <1>4
    <2>3. frame'[0] = frame[0]
      BY <1>2, <2>2
    <2>4. LineInv'
      BY <1>1, <1>2, <2>3, LineStays DEF WordsInv
    <2>5. ASSUME NEW t \in Tids \ {0}
          PROVE  CommandOK(t)'
      <3>1. NoFrame' = NoFrame
        BY DEF NoFrame, Frame, INVALID_THREAD
      <3>2. CASE t = c
        BY <2>2, <3>1, <3>2 DEF CommandOK
      <3>3. CASE t # c
        <4>1. frame[t] # NoFrame => t <= c
          BY <1>1 DEF WordsInv, CommandOK
        <4>2. t <= c => t <= c - 1
          BY <3>3 DEF Tids
        <4> QED
          BY <1>1, <1>2, <2>1, <2>2, <2>3, <3>3, <4>1, <4>2, CommandStays DEF WordsInv
      <3> QED
        BY <3>2, <3>3
    <2> QED
      BY <2>4, <2>5 DEF WordsInv
  <1> QED
    BY <1>3, <1>4 DEF CommandEnds, CleanupThread, SetFinished


\* Before the boot nothing is typed.
LEMMA WordsStart == ShellInit => WordsInv
  <1> SUFFICES ASSUME ShellInit
               PROVE  WordsInv
    OBVIOUS
  <1>1. ShellInv /\ kernel = "boot"
    BY ShellStart DEF ShellInit, InfoInit, Init
  <1>2. /\ cmd_line = [i \in 1 .. MAX_CMD_LINE |-> NUL] /\ pos = 0 /\ line = <<>>
        /\ frame[0].place = "reading"
    BY <1>1 DEF ShellInit, ShellInv
  <1>3. line \in Seq(Letters) /\ Len(line) = 0 /\ 0 \in 0 .. MAX_CMD_LINE /\ 0 <= MAX_CMD_LINE
    BY <1>2, EmptySeq, ShellAssumption
  <1>4. LineInv
    BY <1>2, <1>3 DEF LineInv, IsTyped
  <1>5. \A t \in Tids \ {0} : CommandOK(t)
    BY DEF ShellInit, CommandOK
  <1> QED
    BY <1>1, <1>4, <1>5 DEF WordsInv

\* Every step leaves the commands their words.
LEMMA WordsStep ==
    ASSUME NoneRemoved, WordsInv, [ShellNext]_shellVars
    PROVE  WordsInv'
  <1>1. ShellInv'
    BY ShellStep DEF WordsInv
  <1>2. CASE kernel' \notin {"boot", "up"}
    BY <1>1, <1>2 DEF WordsInv
  <1>3. CASE Start /\ UNCHANGED shell
    <2>1. kernel = "boot" /\ UNCHANGED <<cmd_line, pos, parts, line, frame>>
      BY <1>3 DEF Start, Boot, shell
    <2>2. frame[0].place = "reading"
      BY <2>1 DEF WordsInv, ShellInv
    <2>3. LineInv'
      BY <2>1, <2>2 DEF WordsInv, LineInv, IsTyped
    <2>4. \A t \in Tids \ {0} : CommandOK(t)'
      BY <2>1, <2>2, ReadingIsAlone DEF CommandOK, NoFrame, Frame, INVALID_THREAD
    <2> QED
      BY <1>1, <2>3, <2>4 DEF WordsInv
  <1>4. CASE (\E ch \in Letters : handle_char(ch)) \/ handle_backspace \/ handle_end_of_text
    <2>1. kernel = "up"
      BY <1>4 DEF handle_char, handle_backspace, handle_end_of_text, ShellIsAt, AtStage
    <2> QED
      BY <1>1, <1>4, <2>1, TypingKeepsWords
  <1>5. CASE handle_return
    BY <1>1, <1>5, ReturnKeepsWords
  <1>6. CASE Leave
    BY <1>2, <1>6 DEF Leave, Stop, Exit
  <1>7. CASE Prompt
    BY <1>1, <1>7, PromptKeepsWords
  <1>8. CASE do_command
    BY <1>1, <1>8, DoCommandKeepsWords
  <1>9. CASE RunCommand
    BY <1>1, <1>9, RunKeepsWords
  <1>10. CASE Adopt
    <2>1. PICK c \in Tids : /\ c = current /\ kernel = "up" /\ frame[c].place = "adopt"
                            /\ c = current' /\ GoOn("yield")
                            /\ UNCHANGED <<cmd_line, pos, parts, line>>
      BY <1>10, WorkerIsLive DEF WordsInv, ShellInv, Adopt, ShellIsAt, AtStage, SetChild
    <2>2. "yield" \in ShellPlaces \ {"reading", "command"}
      BY DEF ShellPlaces
    <2>3. Starting(current)'
      <3>1. frame'[c].place = "yield"
        BY <2>1, <2>2, GoOnGoes DEF GoOn, WordsInv, ShellInv
      <3> QED
        BY <2>1, <3>1 DEF Starting
    <2> QED
      BY <1>1, <2>1, <2>2, <2>3, GoingOnKeepsWords DEF WordsInv
  <1>11. CASE YieldToCommand
    <2>1. PICK c \in Tids : /\ c = current /\ kernel = "up" /\ frame[c].place = "yield"
                            /\ UNCHANGED <<cmd_line, pos, parts, line>>
      BY <1>11, WorkerIsLive DEF WordsInv, ShellInv, YieldToCommand, ShellIsAt, AtStage
    <2>2. PICK place \in {"prompt", "return"} : GoOn(place)
      BY <1>11 DEF YieldToCommand
    <2>3. place \in ShellPlaces \ {"reading", "command"}
      BY DEF ShellPlaces
    <2>4. current' = c + 1
      <3>1. PICK t \in Tids : t = c + 1 /\ IsNext(c, t)
        BY <2>1 DEF WordsInv, ShellInv, ChainInv, Starting
      <3>2. t # NULL /\ YieldTo(t)
        BY <1>11, <2>1, <3>1 DEF YieldToCommand, IsNext, Tids, NULL
      <3> QED
        BY <3>1, <3>2 DEF YieldTo, do_scheduler, SwitchTo
    <2>5. \A t \in Tids : t <= c \/ t = c + 1 => t <= c + 1
      BY DEF Tids
    <2> QED
      BY <1>1, <2>1, <2>2, <2>3, <2>4, <2>5, GoingOnKeepsWords DEF WordsInv
  <1>12. CASE load_elf /\ kernel' = "up"
    <2>1. PICK c \in Tids : /\ c = current /\ kernel = "up" /\ frame[c].place = "load"
      BY <1>12, WorkerIsLive DEF WordsInv, ShellInv, load_elf, ShellIsAt, AtStage
    <2>2. /\ c = current' /\ GoOn("start")
          /\ UNCHANGED <<cmd_line, pos, parts, line>>
      BY <1>12, <2>1 DEF load_elf, Restart, Stop, Exit
    <2>3. "start" \in ShellPlaces \ {"reading", "command"}
      BY DEF ShellPlaces
    <2> QED
      BY <1>1, <2>1, <2>2, <2>3, GoingOnKeepsWords DEF WordsInv, Starting
  <1>13. CASE Command /\ kernel' = "up"
    <2>1. PICK c \in Tids : /\ c = current /\ kernel = "up" /\ frame[c].place = "start"
      BY <1>13, WorkerIsLive DEF WordsInv, ShellInv, Command, ShellIsAt, AtStage
    <2>2. /\ c = current' /\ GoOn("return")
          /\ UNCHANGED <<cmd_line, pos, parts, line>>
      BY <1>13, <2>1 DEF Command, Stop, Exit, infoVars, vars
    <2>3. "return" \in ShellPlaces \ {"reading", "command"}
      BY DEF ShellPlaces
    <2> QED
      BY <1>1, <2>1, <2>2, <2>3, GoingOnKeepsWords DEF WordsInv, Starting
  <1>14. CASE CommandEnds
    BY <1>1, <1>14, CommandEndsKeepsWords
  <1>15. CASE UNCHANGED <<vars, shell>>
    BY <1>1, <1>15
    DEF WordsInv, LineInv, IsTyped, IsSplit, CommandOK, HasWords, Starting, Words, NoFrame,
        Frame, INVALID_THREAD, vars, shell
  <1> QED
    <2>1. load_elf \/ Command => kernel' = "up" \/ kernel' \notin {"boot", "up"}
      BY DEF load_elf, Command, Restart, Stop, Exit, Syscall, ShellIsAt, AtStage, infoVars, vars
    <2>2. UNCHANGED shellVars => UNCHANGED <<vars, shell>>
      BY DEF shellVars, infoVars
    <2>3. Halted /\ UNCHANGED <<info, shell>> => UNCHANGED <<vars, shell>>
      BY DEF Halted
    <2> QED
      BY <1>2, <1>3, <1>4, <1>5, <1>6, <1>7, <1>8, <1>9, <1>10, <1>11, <1>12, <1>13, <1>14,
         <1>15, <2>1, <2>2, <2>3 DEF ShellNext

\* A command finds its words in the line, for any number of slots and any line:
\* split_cmd_line finds where they start, nothing writes to cmd_line until all that
\* was started for it has ended, and each run passes on what it has not used itself
\* (handle_return, do_command, run).
THEOREM CommandsFindTheirWords ==
    ASSUME NoneRemoved
    PROVE  ShellSpec => []CommandsGetTheirWords
  <1>1. ShellInit => WordsInv
    BY WordsStart
  <1>2. WordsInv /\ [ShellNext]_shellVars => WordsInv'
    BY WordsStep
  <1>3. WordsInv => CommandsGetTheirWords
    BY WordsAreFound
  <1> QED
    BY <1>1, <1>2, <1>3, PTL DEF ShellSpec
=============================================================================
