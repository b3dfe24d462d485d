------------------------------- MODULE CacheKeys -------------------------------
(***************************************************************************)
(* clients/redis/request_cache.py, _make_key: the redis key of a call of a *)
(* decorated client method.  What reads a piece of data and what updates   *)
(* it are different methods, called with positional, keyword and default   *)
(* arguments, and meet only if their calls make the same key.              *)
(*                                                                         *)
(* A method is the names of its parameters in their order and what each    *)
(* defaults to; a key_format, the names it asks for.                       *)
(***************************************************************************)
EXTENDS Integers, Sequences

CONSTANTS
  UUIDs,  \* the texts that are read as one, and how each is written again
  Empty   \* Parameter.empty

_format_argument(argument) ==
  IF argument \in DOMAIN UUIDs THEN UUIDs[argument] ELSE argument

Index(method, name) ==
  CHOOSE n \in DOMAIN method.parameters : method.parameters[n] = name

_get_argument(name, method, args, kwargs) ==
  LET n == Index(method, name)
  IN IF name \in DOMAIN kwargs THEN kwargs[name]
     ELSE IF n \in DOMAIN args THEN args[n] ELSE method.default[name]

_make_key(key_format, method, args, kwargs) ==
  [n \in DOMAIN key_format |->
     _format_argument(_get_argument(key_format[n], method, args, kwargs))]

-----------------------------------------------------------------------------
(* Python: what a call binds a method's parameters to, if it is one that   *)
(* the method takes.                                                       *)

Names(method) == {method.parameters[n] : n \in DOMAIN method.parameters}

IsMethod(method) ==
  /\ method.parameters \in Seq(Names(method))
  /\ DOMAIN method.default = Names(method)
  /\ \A m, n \in DOMAIN method.parameters :
       method.parameters[m] = method.parameters[n] => m = n

Given(name, method, args) == Index(method, name) \in DOMAIN args

Bound(method, args, kwargs) ==
  [name \in Names(method) |->
     IF Given(name, method, args) THEN args[Index(method, name)]
     ELSE IF name \in DOMAIN kwargs THEN kwargs[name] ELSE method.default[name]]

Takes(method, args, kwargs) ==
  /\ Len(args) <= Len(method.parameters)
  /\ \A name \in DOMAIN kwargs : name \in Names(method) /\ ~Given(name, method, args)
  /\ \A name \in Names(method) : Bound(method, args, kwargs)[name] # Empty
=============================================================================
