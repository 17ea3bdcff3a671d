------------------------------- MODULE Steps --------------------------------
(***************************************************************************)
(* The vocabulary in which WasmPrograms and HostPrograms write down what   *)
(* an archive operation does, one step for each call that can fail, be     *)
(* cancelled or change something outside the function.  Pipeline gives the *)
(* steps their meaning.  A program is a sequence of steps.                 *)
(***************************************************************************)
EXTENDS Sequences

\* A call that may throw and changes nothing: a validation, a read, a mkdir.
Check == [do |-> "check"]
\* if (token?.isCancellationRequested) throw new CancelledError()
Poll == [do |-> "poll"]
\* throw: an error, or the cancellation
Throw(kind) == [do |-> "throw", kind |-> kind]

\* The virtual file system of the 7-Zip instance a thread shares: await
\* JS7z(), a file written into it or read from it, callMain.
Reset == [do |-> "reset"]
Put(f) == [do |-> "put", file |-> f]
Get(f) == [do |-> "get", file |-> f]
Main(reads, makes) == [do |-> "main", reads |-> reads, makes |-> makes]

\* Temporary directories and files on disk.  Drop never throws; DropAfter is
\* one try block that unlinks f and then removes d.
Temp(d) == [do |-> "temp", dir |-> d]
Drop(d) == [do |-> "drop", dir |-> d]
DropAfter(f, d) == [do |-> "dropAfter", file |-> f, dir |-> d]

\* The output: written in place, written as a tree that polls the token
\* between entries, replaced by a rename, or removed.  After Stage and until
\* Publish or Unstage the steps write a new copy in another place.
Write == [do |-> "write"]
WriteTree == [do |-> "tree"]
Replace == [do |-> "replace"]
Remove == [do |-> "remove"]
Stage == [do |-> "stage"]
Publish == [do |-> "publish"]
Unstage == [do |-> "unstage"]

\* A child process: whether the token kills it, whether a timer and an output
\* limit do, whether a bad exit code rejects, and whether it writes "none" of
\* the output, may leave a part of it ("create") or renames it ("replace").
Child(wired, timed, strict, writes) ==
  [do |-> "child", wired |-> wired, timed |-> timed, strict |-> strict,
   writes |-> writes]
\* A promise of the RAR binding: whether it gets an abort signal, whether it
\* writes its output in place.
Binding(wired, writes) == [do |-> "binding", wired |-> wired, writes |-> writes]

\* Control: a branch on data or options, try/finally, try/catch of the given
\* kinds of error, and a body that runs on a worker thread.
Either(alternatives) == [do |-> "either", alternatives |-> alternatives]
TryFinally(body, final) == [do |-> "finally", body |-> body, handler |-> final,
                            kinds |-> {}]
TryCatch(body, kinds, handler) == [do |-> "catch", body |-> body,
                                   handler |-> handler, kinds |-> kinds]
Worker(body) == [do |-> "worker", body |-> body, handler |-> << >>, kinds |-> {}]
Leave == [do |-> "leave"]

\* A refused content ("unsafe") is a failure like the others, except where a
\* catch block does not cover the check.
Failure == {"failed", "unsafe"}
AnyError == Failure \cup {"cancelled"}

Optional(steps) == Either(<< << >>, steps >>)
\* A loop over data: the runs take none, one and two rounds.
Loop(steps) == Either(<< << >>, steps, steps \o steps >>)
=============================================================================
