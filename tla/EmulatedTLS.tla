---------------------------- MODULE EmulatedTLS ----------------------------
(***************************************************************************)
(* Thread local variables on the ports without thread registers: the       *)
(* functions that the compiler calls for every access (src/user/emutls.c). *)
(* They run in user mode, so the timer can interrupt them between any two  *)
(* accesses to the counter, the table and the storage they share.  Whose   *)
(* row of the table they use they read in user_thread_info.                *)
(***************************************************************************)
EXTENDS UserThreadInfo

CONSTANTS
    Vars,           \* the thread local variables of the program
    MAX_TLS_VARS,   \* indexes there are
    AllocSpace      \* variables that alloc_space has room for

ASSUME TLSAssumption == MAX_TLS_VARS \in Nat \ {0} /\ AllocSpace \in Nat \ {0}

VARIABLES
    index,            \* control->object.index of each variable
    emutls_var_count,
    alloc_ptr,        \* variables that alloc_space holds
    address_arrays,   \* per thread and index, the place in alloc_space
    access,           \* where each thread is in an access, for which variable,
                      \* with the other local it has read
    disturbed         \* history: two updates have met, or one was left undone

table == <<index, emutls_var_count, alloc_ptr, address_arrays>>
tls == <<table, access, disturbed>>
tlsVars == <<infoVars, tls>>

NoAddress == 0
Outside == [at |-> "outside"]

\* From the look at the index, or at the pointer into alloc_space, to the last
\* change that follows from it.
IndexUpdates == {"read_count", "write_count", "write_index"}
StorageUpdates == {"write_address", "write_space"}
Updates == IndexUpdates \cup StorageUpdates

TLSInit ==
    /\ InfoInit
    /\ index = [v \in Vars |-> 0]
    /\ emutls_var_count = 0
    /\ alloc_ptr = 0
    /\ address_arrays = [t \in Tids |-> [i \in 1 .. MAX_TLS_VARS |-> NoAddress]]
    /\ access = [t \in Tids |-> Outside]
    /\ disturbed = FALSE

----------------------------------------------------------------------------
(* __emutls_get_address of a variable, and what the program does with it.  *)

At(place) == AtStage("work") /\ access[current].at = place
GoTo(place, value) ==
    access' = [access EXCEPT ![current].at = place, ![current].local = value]
var == access[current].var
local == access[current].local
row == address_arrays[user_thread_info.id]

\* emutls_get_index: a variable that has an index keeps it.
GetIndex(v) ==
    /\ At("outside")
    /\ access' = [access EXCEPT ![current] =
                     [at |-> IF index[v] = 0 THEN "read_count" ELSE "look_up",
                      var |-> v, local |-> index[v]]]
    /\ UNCHANGED <<infoVars, table>>

ReadCount ==
    /\ At("read_count")
    /\ GoTo("write_count", emutls_var_count)
    /\ UNCHANGED <<infoVars, table>>

\* Mutated: the count does not go up.
WriteCountSame ==
    /\ At("write_count")
    /\ emutls_var_count' = local
    /\ GoTo("write_index", local)
    /\ UNCHANGED <<infoVars, index, alloc_ptr, address_arrays>>

WriteCount ==
    /\ At("write_count")
    /\ emutls_var_count' = local + 1
    /\ GoTo("write_index", local)
    /\ UNCHANGED <<infoVars, index, alloc_ptr, address_arrays>>

WriteIndex ==
    /\ At("write_index")
    /\ index' = [index EXCEPT ![var] = 1 + local]
    /\ GoTo("check_count", 0)
    /\ UNCHANGED <<infoVars, emutls_var_count, alloc_ptr, address_arrays>>

\* What it returns is read from the variable again.
CheckCount ==
    /\ At("check_count")
    /\ \/ emutls_var_count > MAX_TLS_VARS /\ Exit("exit1") /\ UNCHANGED access
       \/ emutls_var_count <= MAX_TLS_VARS /\ GoTo("look_up", index[var]) /\ UNCHANGED vars
    /\ UNCHANGED <<info, table>>

\* An index past the end, of a variable whose index another thread has set and
\* not checked yet, reaches into the row of the next thread.
PastTheRow ==
    /\ kernel' = "undefined"
    /\ UNCHANGED <<id, state, family, permissions, stage, current, config, table, access>>

LookUp ==
    /\ At("look_up")
    /\ IF local > MAX_TLS_VARS
       THEN PastTheRow
       ELSE /\ GoTo(IF row[local] = NoAddress THEN "read_space" ELSE "use", 0)
            /\ UNCHANGED <<vars, table>>
    /\ UNCHANGED <<info>>

\* emutls_init_var.
ReadSpace ==
    /\ At("read_space")
    /\ \/ alloc_ptr + 1 > AllocSpace /\ Exit("exit1") /\ UNCHANGED access
       \/ alloc_ptr + 1 <= AllocSpace /\ GoTo("write_address", alloc_ptr) /\ UNCHANGED vars
    /\ UNCHANGED <<info, table>>

\* The copy of the initial value may change the pointer, for all that the compiler
\* knows: it is read again, and so is the index.
WriteAddress ==
    /\ At("write_address")
    /\ IF index[var] > MAX_TLS_VARS
       THEN PastTheRow
       ELSE /\ address_arrays' =
                  [address_arrays EXCEPT ![user_thread_info.id][index[var]] = alloc_ptr + 1]
            /\ GoTo("write_space", local)
            /\ UNCHANGED <<vars, index, emutls_var_count, alloc_ptr>>
    /\ UNCHANGED <<info>>

WriteSpace ==
    /\ At("write_space")
    /\ alloc_ptr' = local + 1
    /\ GoTo("use", 0)
    /\ UNCHANGED <<infoVars, index, emutls_var_count, address_arrays>>

\* The program gets the address, and uses it.
Use ==
    /\ At("use")
    /\ access' = [access EXCEPT ![current] = Outside]
    /\ UNCHANGED <<infoVars, table>>

----------------------------------------------------------------------------
(* The other steps.  Nothing in a new thread's row of the table is reset.  *)

TLSCreate(t) ==
    /\ \/ t = 0 /\ Start
       \/ At("outside") /\ Create(t)
    /\ access' = [access EXCEPT ![t] = Outside]
    /\ UNCHANGED table

\* In the middle of an access there are no calls, but the timer can interrupt it.
TLSOther ==
    /\ (kernel = "up" /\ access[current] # Outside) => Tick
    /\ ThreadStep
    /\ UNCHANGED <<table, access>>

TLSStep ==
    \/ \E v \in Vars : GetIndex(v)
    \/ ReadCount \/ WriteCount \/ WriteIndex \/ CheckCount \/ LookUp
    \/ ReadSpace \/ WriteAddress \/ WriteSpace \/ Use
    \/ \E t \in Tids : TLSCreate(t)
    \/ TLSOther

\* Two threads are in an update of the same kind.
TwoUpdate ==
    \E kind \in {IndexUpdates, StorageUpdates} : \E t, u \in Tids :
        t # u /\ access[t].at \in kind /\ access[u].at \in kind

\* A thread was cancelled in an update, and there is a new one in its slot.
LeftUndone == \E t \in Tids : access[t].at \in Updates /\ access'[t] = Outside

TLSNext ==
    /\ TLSStep
    /\ disturbed' = (disturbed \/ TwoUpdate' \/ LeftUndone)

TLSSpec == TLSInit /\ [][TLSNext]_tlsVars

----------------------------------------------------------------------------
(* Properties.                                                             *)

AddressOf(t, v) == IF index[v] \in 1 .. MAX_TLS_VARS THEN address_arrays[t][index[v]]
                                                     ELSE NoAddress

\* Two variables, or one variable of two threads, never share storage, and a
\* thread that has finished its first access to a variable has some for it,
\* whatever order threads first touch them in and wherever the timer interrupts
\* them, also in an update: only another update of the same kind that begins
\* before one has ended, or one that never ends, can break this.
VariablesAreSeparate ==
    ~disturbed =>
        /\ \A t, u \in Tids : \A v, w \in Vars :
              AddressOf(t, v) = AddressOf(u, w) =>
                  AddressOf(t, v) = NoAddress \/ (t = u /\ v = w)
        /\ \A t \in Tids : access[t].at = "use" => AddressOf(t, access[t].var) # NoAddress
============================================================================
