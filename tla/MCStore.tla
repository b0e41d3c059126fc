------------------------------- MODULE MCStore -------------------------------
(***************************************************************************)
(* Small applications under test for TLC: each returns one family of       *)
(* commands.                                                               *)
(***************************************************************************)
EXTENDS StoreProperties

Item(n) == Emit(Message("item", <<n>>))

KeyK == NewId("k")

App(first, rest) == [init |-> first, updates |-> rest]

(* Ready items at a deadline, nested deadlines, one call over two leaves.  *)
TimeoutProgram ==
  App(Timeout(Timeout(Batch(<<Effect(<<Item(1), Item(2), Item(3)>>),
                                  Effect(<<Wait(2), Item(1)>>)>>), 1, 1), 2, 2),
          {None,
           Timeout(Effect(<<Hang>>), 1, 1),
           Timeout(Batch(<<Effect(<<Wait(1), Item(1)>>),
                           Effect(<<Wait(1)>>)>>), 1, 1)})

(* One id: replaced, suppressed, cancelled, and held by a leaf whose end   *)
(* nobody has polled yet.                                                  *)
KeyedProgram ==
  App(CancellableWith(Effect(<<Item(1), Wait(1), Item(2)>>), KeyK, "CancelInFlight"),
          {WithoutRedraw(None),
           CancellableWith(Effect(<<Item(1)>>), KeyK, "KeepInFlight"),
           Batch(<<Cancel(KeyK),
                   CancellableWith(Timeout(Effect(<<Hang>>), 1, 1), KeyK, "KeepInFlight")>>),
           CancellableWith(Effect(<<Wait(1), Item(1), Item(2)>>), KeyK, "CancelInFlight")})

(* Scopes with hooks that take time, torn down and entered again.          *)
Enter(segment, time) ==
  Scoped(Batch(<<OnTeardown(Source(<<Wait(time)>>)), Effect(<<Wait(1), Item(1)>>)>>), segment)

ScopeProgram ==
  App(Enter("s", 1),
          {Teardowns(<<"s">>),
           Batch(<<Teardowns(<<"s">>), Enter("s", 0)>>),
           Scoped(Enter("t", 1), "s")})

(* Attempts that fail, with and without a backoff, and under a deadline.   *)
Policy(max, delay, again) ==
  [max |-> max, delay |-> delay, takes |-> <<0, 1, 0, 0>>,
   ok |-> <<FALSE, FALSE, FALSE, TRUE>>, again |-> again]

RetryProgram ==
  App(Retry(Policy(3, 1, <<TRUE, TRUE, FALSE, TRUE>>)),
          {None,
           Retry(Policy(4, 0, <<TRUE, TRUE, TRUE, TRUE>>)),
           Retry(Policy(2, 2, <<FALSE, TRUE, TRUE, TRUE>>)),
           Timeout(Retry(Policy(2, 2, <<TRUE, TRUE, TRUE, TRUE>>)), 1, 1)})

(* Quits of an update, beside other work, and of an effect.                *)
QuitProgram ==
  App(Effect(<<Item(1), Emit(Quit), Item(2)>>),
          {None, Batch(<<Effect(<<Item(1)>>), QuitCommand>>),
           Timeout(Effect(<<Emit(Quit), Item(1)>>), 0, 1)})

(* One ready stream under two deadlines, the inner one earlier.             *)
NestedProgram ==
  App(Timeout(Timeout(Effect(<<Item(1), Item(2), Item(3)>>), 1, 1), 2, 2), {None})

NestedPrograms == {NestedProgram}

StorePrograms == {TimeoutProgram, KeyedProgram, ScopeProgram, RetryProgram, QuitProgram}
=============================================================================
