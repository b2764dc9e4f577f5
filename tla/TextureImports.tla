----------------------------- MODULE TextureImports ----------------------------
(***************************************************************************)
(* D3D11VulkanInterop: the Vulkan images the copy ring's textures are      *)
(* imported as.  An import is made when its texture is first presented and *)
(* kept in a cache; the cache is emptied when a frame of another ring is   *)
(* presented, and each flight keeps the import its submission samples.     *)
(*                                                                         *)
(* The frames, their leases and the GPU are those of InteropLeases; an     *)
(* import is known by its texture, which ImportedOnce justifies.           *)
(***************************************************************************)
EXTENDS InteropLeases

VARIABLES
  cache,            \* the textures with an import in the cache
  cacheGeneration,  \* the ring they belong to
  importedTexture,  \* the import each flight keeps
  imports           \* how often each texture was imported (only observed)

importing == <<cache, cacheGeneration, importedTexture, imports>>

ImportsInit ==
  /\ Init
  /\ cache = {} /\ cacheGeneration = 0
  /\ importedTexture = [f \in Flight |-> None]
  /\ imports = [t \in Texture |-> 0]

-------------------------------------------------------------------------------
(* The imports of the ring the frame belongs to. *)
Cached == IF displayed.texture[1] = cacheGeneration THEN cache ELSE {}

Import(texture) ==
  /\ cache' = Cached \union {texture}
  /\ imports' = IF texture \in Cached THEN imports
                                      ELSE [imports EXCEPT ![texture] = @ + 1]

(* Slip: the flight relies on the cache. *)
PrepareWithoutKeeping ==
  /\ PrepareFrame
  /\ Import(displayed.texture)
  /\ cacheGeneration' = displayed.texture[1]
  /\ UNCHANGED importedTexture

(* Slip: the ring the cache belongs to is not noted. *)
PrepareUnnoted ==
  /\ PrepareFrame
  /\ Import(displayed.texture)
  /\ importedTexture' = [importedTexture EXCEPT ![current] = displayed.texture]
  /\ UNCHANGED cacheGeneration

(* A texture that cannot be imported ends the loop: LeaveLoop. *)
Prepare ==
  /\ PrepareFrame
  /\ Import(displayed.texture)
  /\ cacheGeneration' = displayed.texture[1]
  /\ importedTexture' = [importedTexture EXCEPT ![current] = displayed.texture]

Release ==
  /\ ReleaseFrames
  /\ importedTexture' = [f \in Flight |-> None]
  /\ UNCHANGED <<cache, cacheGeneration, imports>>

ImportsNext ==
  \/ Prepare \/ Release
  \/ (DecoderStep \/ GpuStep \/ LoopStep \/ Finished) /\ UNCHANGED importing

ImportsSpec == ImportsInit /\ [][ImportsNext]_<<vars, importing>>
-------------------------------------------------------------------------------
(* An image is destroyed with the last reference to its import, the        *)
(* cache's or a flight's: none that a submission samples may be.           *)
ImportsOutliveSubmissions ==
  \A f \in Flight : sampled[f] # None =>
    sampled[f].texture \in cache \union {importedTexture[g] : g \in Flight}

(* The cache is worth having: however rings replace each other while old   *)
(* frames are still presented, no texture is imported twice.               *)
ImportedOnce == \A t \in Texture : imports[t] <= 1
===============================================================================
