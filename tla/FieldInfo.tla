----------------------------- MODULE FieldInfo -----------------------------
(***************************************************************************)
(* cafebabe_field_info_init and cafebabe_field_info_deinit of             *)
(* src/cafebabe/field_info.c: parsing one field_info of a class file and   *)
(* releasing it.  The stream reads, cafebabe_stream_malloc and             *)
(* cafebabe_attribute_info_init are not under src/: each either succeeds   *)
(* or fails, nondeterministically.  The attribute array is a function      *)
(* from slot to the state of the attribute_info in it; releasing a slot    *)
(* that holds no live attribute, or freeing the array twice, marks it      *)
(* "corrupt".                                                              *)
(***************************************************************************)
EXTENDS Integers

CONSTANTS
    MaxAttributes   \* largest attributes_count the stream holds

VARIABLES
    fpc,        \* where cafebabe_field_info_init (or the caller) is
    attrCount,  \* f->attributes.count
    ai,         \* the loop counter, attributes_i once the loop has left
    attr,       \* slot -> "raw" | "live" | "dead" | "corrupt"
    arr,        \* f->attributes.array: "null" | "live" | "freed" | "corrupt"
    ret         \* the value returned, or -1 while running

fvars == <<fpc, attrCount, ai, attr, arr, ret>>

Slots == 0..(MaxAttributes - 1)

FInit ==
    /\ fpc = "read"
    /\ attrCount = 0
    /\ ai = 0
    /\ attr = [s \in Slots |-> "raw"]
    /\ arr = "null"
    /\ ret = -1

\* cafebabe_attribute_info_deinit on slot s
DeinitSlot(a, s) == [a EXCEPT ![s] = IF @ = "live" THEN "dead" ELSE "corrupt"]

\* free(f->attributes.array)
Free(x) == IF x = "live" THEN "freed" ELSE "corrupt"

(* The four cafebabe_stream_read_uint16 calls: any failing goes to out.   *)
ReadHeader ==
    /\ fpc = "read"
    /\ \/ /\ fpc' = "done" /\ ret' = 1 /\ UNCHANGED attrCount
       \/ /\ fpc' = "malloc"
          /\ attrCount' \in 0..MaxAttributes
          /\ UNCHANGED ret
    /\ UNCHANGED <<ai, attr, arr>>

(* cafebabe_stream_malloc of count slots: NULL goes to out.  Whether a     *)
(* zero-byte request returns NULL is the C library's choice.              *)
AllocAttributes ==
    /\ fpc = "malloc"
    /\ \/ /\ arr' = "live" /\ fpc' = "loop" /\ UNCHANGED ret
       \/ /\ fpc' = "done" /\ ret' = 1 /\ UNCHANGED arr
    /\ UNCHANGED <<attrCount, ai, attr>>

\* mutant: the loop runs while i <= count
InitAttributeInclusive ==
    /\ fpc = "loop"
    /\ ai <= attrCount
    /\ \/ /\ attr' = [attr EXCEPT ![ai] = "live"] /\ ai' = ai + 1
          /\ UNCHANGED fpc
       \/ /\ fpc' = "cleanup" /\ UNCHANGED <<attr, ai>>
    /\ UNCHANGED <<attrCount, arr, ret>>

(* One iteration: cafebabe_attribute_info_init on slot i.                  *)
InitAttribute ==
    /\ fpc = "loop"
    /\ ai < attrCount
    /\ \/ /\ attr' = [attr EXCEPT ![ai] = "live"] /\ ai' = ai + 1
          /\ UNCHANGED fpc
       \/ /\ fpc' = "cleanup" /\ UNCHANGED <<attr, ai>>
    /\ UNCHANGED <<attrCount, arr, ret>>

\* mutant: the cleanup loop also deinitialises the slot that failed
CleanupThroughFailed ==
    /\ fpc = "cleanup"
    /\ attr' = [s \in Slots |-> IF s <= ai /\ s < attrCount
                                THEN DeinitSlot(attr, s)[s] ELSE attr[s]]
    /\ arr' = Free(arr)
    /\ fpc' = "done" /\ ret' = 1
    /\ UNCHANGED <<attrCount, ai>>

(* out_attributes_init: deinit slots 0 .. attributes_i - 1, free the      *)
(* array, return 1.                                                        *)
Cleanup ==
    /\ fpc = "cleanup"
    /\ attr' = [s \in Slots |-> IF s < ai THEN DeinitSlot(attr, s)[s] ELSE attr[s]]
    /\ arr' = Free(arr)
    /\ fpc' = "done" /\ ret' = 1
    /\ UNCHANGED <<attrCount, ai>>

(* The loop ran to the end: attributes_i = count, return 0.                *)
ParseDone ==
    /\ fpc = "loop"
    /\ ai = attrCount
    /\ fpc' = "parsed" /\ ret' = 0
    /\ UNCHANGED <<attrCount, ai, attr, arr>>

(* cafebabe_field_info_deinit on a parsed field: deinit every slot of     *)
(* attributes.count, free the array.                                       *)
Deinit ==
    /\ fpc = "parsed"
    /\ attr' = [s \in Slots |-> IF s < attrCount THEN DeinitSlot(attr, s)[s] ELSE attr[s]]
    /\ arr' = Free(arr)
    /\ fpc' = "done"
    /\ UNCHANGED <<attrCount, ai, ret>>

FNext == ReadHeader \/ AllocAttributes \/ InitAttribute \/ Cleanup
         \/ ParseDone \/ Deinit

FSpec == FInit /\ [][FNext]_fvars

-----------------------------------------------------------------------------
FTypeOK ==
    /\ fpc \in {"read", "malloc", "loop", "cleanup", "parsed", "done"}
    /\ attrCount \in 0..MaxAttributes
    /\ ai \in 0..attrCount
    /\ attr \in [Slots -> {"raw", "live", "dead", "corrupt"}]
    /\ arr \in {"null", "live", "freed", "corrupt"}
    /\ ret \in {-1, 0, 1}

(* Every attribute_info is released exactly once and the array freed at  *)
(* most once, whichever read, allocation or attribute fails: no slot is   *)
(* ever deinitialised without a live attribute in it, and once the field  *)
(* is done (init failed, or init succeeded and deinit ran) no attribute   *)
(* and no array is left live.                                              *)
FieldReleasedOnce ==
    /\ \A s \in Slots : attr[s] # "corrupt"
    /\ arr # "corrupt"
    /\ fpc = "done" => (\A s \in Slots : attr[s] # "live") /\ arr # "live"
=============================================================================
