------------------------------ MODULE GlxTables ------------------------------
(***************************************************************************)
(* The tables of the GLX front end (src/client/platform/glx.c): contexts   *)
(* and drawables of a program, what is current, and the image that         *)
(* glXSwapBuffers keeps for the next frame.  One thread and one display.   *)
(*                                                                         *)
(* A context is the address calloc returned, a window the number the X     *)
(* server gave it: both come back for another one after they are released. *)
(* Of a configuration only its number counts, of a window its depth.  All  *)
(* contexts of a program are one to the server; frames are the matter of   *)
(* FramePresent.  A call that is refused for its arguments changes nothing *)
(* and is left out.                                                        *)
(***************************************************************************)
EXTENDS Integers

CONSTANTS Addresses,    \* where calloc may put a context
          Windows,      \* the numbers of X windows
          Configs,      \* the configurations of glx_generate_fb_configs
          Depths,       \* the depths of windows
          MaxContexts,  \* GLX_MAX_CONTEXTS
          MaxDrawables, \* GLX_MAX_DRAWABLES
          None          \* no context, window, configuration or entry

ASSUME TableAssumption == MaxContexts \in Nat /\ MaxDrawables \in Nat
ASSUME NoneAssumption ==
         /\ None \notin Addresses \cup Windows \cup Configs \cup Depths
         /\ None \notin [drawable : Windows, config : Configs]
         /\ None \notin [drawable : Windows, depth : Depths]

VARIABLES
  glx_contexts,  \* the table of contexts
  config,        \* the configuration of a context
  current_context, current_drawable,
  glx_drawables, \* the table of drawables: window and configuration
  swap_data,     \* the image and graphics context of the last swap
  (* The X server *)
  depth,         \* the windows there are, with their depths
  (* History *)
  handed,        \* contexts the program was given and did not destroy
  chosen,        \* the configurations of the windows made by glXCreateWindow
  leftover,      \* windows of whose number an older one's data is left
  shown          \* the window that was swapped last, and the depth of its image

contextVars == <<glx_contexts, config, current_context, current_drawable>>
drawableVars == <<glx_drawables, swap_data>>
glxVars == <<contextVars, drawableVars, depth, handed, chosen, leftover, shown>>

GlxInit ==
  /\ glx_contexts = [i \in 1 .. MaxContexts |-> None]
  /\ config = [a \in Addresses |-> None] /\ current_context = None /\ current_drawable = None
  /\ glx_drawables = [i \in 1 .. MaxDrawables |-> None] /\ swap_data = None
  /\ depth = [w \in Windows |-> None]
  /\ handed = {} /\ chosen = [w \in Windows |-> None]
  /\ leftover = [drawable |-> {}, image |-> {}] /\ shown = None

(* The first of a table's entries that are in a set                        *)
First(found) == {i \in found : \A j \in found : i <= j}
Entries(table, e) == {i \in DOMAIN table : table[i] = e}
Put(table, found, e) == [i \in DOMAIN table |-> IF i \in First(found) THEN e ELSE table[i]]

-----------------------------------------------------------------------------
(* Contexts                                                                *)

glx_lookup_context(a) == Entries(glx_contexts, a) # {}

SetCurrent(a, w) == current_context' = a /\ current_drawable' = w

(* glXCreateContext, glXCreateNewContext, glXCreateContextAttribsARB: with *)
(* a full table there is no context                                        *)
CreateContext(a, c) ==
  /\ ~glx_lookup_context(a)
  /\ Entries(glx_contexts, None) # {}
  /\ glx_contexts' = Put(glx_contexts, Entries(glx_contexts, None), a)
  /\ config' = [config EXCEPT ![a] = c]
  /\ handed' = handed \cup {a}
  /\ UNCHANGED <<current_context, current_drawable, drawableVars, depth, chosen, leftover, shown>>

(* Faulty variant: the rejected context is freed and stays in the table.   *)
RejectKeepsEntry(a) ==
  /\ ~glx_lookup_context(a)
  /\ Entries(glx_contexts, None) # {}
  /\ glx_contexts' = Put(glx_contexts, Entries(glx_contexts, None), a)
  /\ config' = [config EXCEPT ![a] = None]
  /\ UNCHANGED <<current_context, current_drawable, drawableVars, depth, handed, chosen, leftover, shown>>
(* A profile for ES is asked for: the context that was just registered is  *)
(* destroyed again                                                         *)
RejectContext(a) ==
  /\ ~glx_lookup_context(a)
  /\ Entries(glx_contexts, None) # {}
  /\ LET registered == Put(glx_contexts, Entries(glx_contexts, None), a)
     IN glx_contexts' = Put(registered, Entries(registered, a), None)
  /\ config' = [config EXCEPT ![a] = None]
  /\ IF current_context = a THEN SetCurrent(None, None)
     ELSE UNCHANGED <<current_context, current_drawable>>
  /\ UNCHANGED <<drawableVars, depth, handed, chosen, leftover, shown>>

DestroyContext(a) ==
  /\ glx_lookup_context(a)
  /\ glx_contexts' = Put(glx_contexts, Entries(glx_contexts, a), None)
  /\ config' = [config EXCEPT ![a] = None]
  /\ IF current_context = a THEN SetCurrent(None, None)
     ELSE UNCHANGED <<current_context, current_drawable>>
  /\ handed' = handed \ {a}
  /\ UNCHANGED <<drawableVars, depth, chosen, leftover, shown>>

(* glXMakeContextCurrent; the drawable is not looked at                    *)
MakeCurrent(a, w) ==
  /\ a = None \/ glx_lookup_context(a)
  /\ SetCurrent(a, IF a = None THEN None ELSE w)
  /\ UNCHANGED <<glx_contexts, config, drawableVars, depth, handed, chosen, leftover, shown>>

-----------------------------------------------------------------------------
(* Drawables                                                               *)

glx_find_drawable_state(w) ==
  {i \in DOMAIN glx_drawables : glx_drawables[i] # None /\ glx_drawables[i].drawable = w}

(* Faulty variant: a window takes a new entry though it has one.           *)
TrackAnew(w, c) ==
  LET place == Entries(glx_drawables, None)
  IN /\ depth[w] # None
     /\ glx_drawables' = Put(glx_drawables, place, [drawable |-> w, config |-> c])
     /\ chosen' = [chosen EXCEPT ![w] = IF place = {} THEN None ELSE c]
     /\ leftover' = [leftover EXCEPT !.drawable = IF place = {} THEN @ ELSE @ \ {w}]
     /\ UNCHANGED <<contextVars, swap_data, depth, handed, shown>>
(* glXCreateWindow; with a full table the window is not noted              *)
CreateWindow(w, c) ==
  LET found == glx_find_drawable_state(w)
      place == IF found # {} THEN found ELSE Entries(glx_drawables, None)
  IN /\ depth[w] # None
     /\ glx_drawables' = Put(glx_drawables, place, [drawable |-> w, config |-> c])
     /\ chosen' = [chosen EXCEPT ![w] = IF place = {} THEN None ELSE c]
     /\ leftover' = [leftover EXCEPT !.drawable = IF place = {} THEN @ ELSE @ \ {w}]
     /\ UNCHANGED <<contextVars, swap_data, depth, handed, shown>>

(* glXDestroyWindow                                                        *)
DestroyWindow(w) ==
  /\ glx_find_drawable_state(w) # {}
  /\ glx_drawables' = Put(glx_drawables, glx_find_drawable_state(w), None)
  /\ chosen' = [chosen EXCEPT ![w] = None]
  /\ leftover' = [leftover EXCEPT !.drawable = @ \ {w}]
  /\ UNCHANGED <<contextVars, swap_data, depth, handed, shown>>

(* What glXQueryDrawable answers for GLX_FBCONFIG_ID                       *)
QueryDrawable(w) ==
  LET found == First(glx_find_drawable_state(w))
  IN IF found # {} THEN glx_drawables[CHOOSE i \in found : TRUE].config
     ELSE IF /\ current_context # None /\ current_drawable = w
             /\ glx_lookup_context(current_context)
          THEN config[current_context] ELSE None

-----------------------------------------------------------------------------
(* glXSwapBuffers: the image is chosen anew when another window is swapped   *)

HasImage(w) == IF swap_data = None THEN FALSE ELSE swap_data.drawable = w
NewImage(w) == IF depth[w] = None THEN None ELSE [drawable |-> w, depth |-> depth[w]]

(* XPutImage: the program sees a frame if there is an image and a window   *)
Shows(w) == shown' = IF swap_data' = None \/ depth[w] = None THEN None
                     ELSE [drawable |-> w, depth |-> swap_data'.depth]

(* The image made for this window is used again, any other is replaced     *)
SwapBuffers(w) ==
  /\ \/ /\ HasImage(w)
        /\ UNCHANGED <<swap_data, leftover>>
     \/ /\ ~HasImage(w)
        /\ swap_data' \in {NewImage(w), None}         \* None: no image or no gc
        /\ leftover' = [leftover EXCEPT !.image = {}]
  /\ Shows(w)
  /\ UNCHANGED <<contextVars, glx_drawables, depth, handed, chosen>>

-----------------------------------------------------------------------------
(* XCreateWindow and XDestroyWindow, of which glx.c learns nothing         *)

OpenWindow(w, d) ==
  /\ depth[w] = None
  /\ depth' = [depth EXCEPT ![w] = d]
  /\ UNCHANGED <<contextVars, drawableVars, handed, chosen, leftover, shown>>

CloseWindow(w) ==
  /\ depth[w] # None
  /\ depth' = [depth EXCEPT ![w] = None] /\ chosen' = [chosen EXCEPT ![w] = None]
  /\ leftover' =
       [drawable |-> IF glx_find_drawable_state(w) # {} THEN leftover.drawable \cup {w}
                     ELSE leftover.drawable,
        image |-> IF HasImage(w) THEN leftover.image \cup {w}
                  ELSE leftover.image]
  /\ shown' = IF shown # None /\ shown.drawable = w THEN None ELSE shown
  /\ UNCHANGED <<contextVars, drawableVars, handed>>

-----------------------------------------------------------------------------
WindowsNext ==
  \/ \E w \in Windows : CloseWindow(w)
  \/ \E w \in Windows, d \in Depths : OpenWindow(w, d)
TablesNext ==
  \/ \E a \in Addresses, c \in Configs : CreateContext(a, c)
  \/ \E a \in Addresses : RejectContext(a) \/ DestroyContext(a)
  \/ \E a \in Addresses \cup {None}, w \in Windows : MakeCurrent(a, w)
  \/ \E w \in Windows, c \in Configs : CreateWindow(w, c)
  \/ \E w \in Windows : DestroyWindow(w)
SwapsNext == \E w \in Windows : SwapBuffers(w)

GlxNext == WindowsNext \/ TablesNext \/ SwapsNext

GlxSpec == GlxInit /\ [][GlxNext]_glxVars

-----------------------------------------------------------------------------
Drawables == [drawable : Windows, config : Configs]
Images == [drawable : Windows, depth : Depths]

GlxTypeOK ==
  /\ glx_contexts \in [1 .. MaxContexts -> Addresses \cup {None}]
  /\ config \in [Addresses -> Configs \cup {None}]
  /\ current_context \in Addresses \cup {None} /\ current_drawable \in Windows \cup {None}
  /\ glx_drawables \in [1 .. MaxDrawables -> Drawables \cup {None}]
  /\ swap_data \in Images \cup {None} /\ shown \in Images \cup {None}
  /\ depth \in [Windows -> Depths \cup {None}]
  /\ handed \subseteq Addresses /\ chosen \in [Windows -> Configs \cup {None}]
  /\ leftover \in [drawable : SUBSET Windows, image : SUBSET Windows]

(* The table holds each context the program has, once, and nothing else -  *)
(* no entry is lost to a context that was refused, though addresses come   *)
(* back -, and what is current is one of them.                             *)
ContextsAccountedFor ==
  /\ \A i, j \in DOMAIN glx_contexts :
       glx_contexts[i] = glx_contexts[j] => i = j \/ glx_contexts[i] = None
  /\ {glx_contexts[i] : i \in DOMAIN glx_contexts} \ {None} = handed
  /\ \/ current_context = None /\ current_drawable = None
     \/ current_context \in handed

(* A window that glXCreateWindow noted has the configuration it was last   *)
(* given, and any other the one of the context it is current with, and a   *)
(* frame is put with the depth of its window - unless the window took over *)
(* the number of one that the program did not take back, or that was the   *)
(* last to be swapped: glx.c does not learn that windows go.               *)
WindowsAsCreated ==
  /\ \A w \in Windows \ leftover.drawable :
       QueryDrawable(w) = IF chosen[w] # None THEN chosen[w]
                          ELSE IF current_drawable = w THEN config[current_context] ELSE None
  /\ shown # None /\ shown.drawable \notin leftover.image =>
       shown.depth = depth[shown.drawable]
=============================================================================
