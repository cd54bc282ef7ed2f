--------------------------- MODULE AsioWrapper_proofs ---------------------------
(* Safety of AsioWrapper: what a tick and a host may rely on. *)
EXTENDS AsioWrapper, SequenceTheorems, WellFoundedInduction, TLAPS

-----------------------------------------------------------------------------
(* The steps of the threads *)

LEMMA OpenControlDeviceKeeps ==
    ASSUME IInv, OpenControlDevice
    PROVE  IInv'
<1>1. TypeOK'
  BY DEF IInv, TypeOK, OpenControlDevice, Goto, wrapperVars, threadVars, Idle, HostStates, NoClient
<1>2. ThreadInv'
  BY DEF IInv, TypeOK, ThreadInv, OpenControlDevice, Goto, wrapperVars, threadVars, Idle,
         Starting, InLock, NoClient
<1>3. ClientInv'
  BY DEF IInv, TypeOK, ThreadInv, ClientInv, BuffersInv, OpenControlDevice, Goto, wrapperVars,
         threadVars, Idle, Starting, NoClient
<1>4. BuffersInv'
  BY DEF IInv, TypeOK, ThreadInv, BuffersInv, OpenControlDevice, Goto, wrapperVars, threadVars,
         Idle, Starting
<1>5. OfferInv'
  BY DEF IInv, TypeOK, OfferInv, OpenControlDevice, Goto, wrapperVars, threadVars
<1>. QED BY <1>1, <1>2, <1>3, <1>4, <1>5 DEF IInv

LEMMA OpenMmNotificationClientKeeps ==
    ASSUME IInv, OpenMmNotificationClient
    PROVE  IInv'
<1>1. TypeOK'
  BY DEF IInv, TypeOK, OpenMmNotificationClient, Goto, wrapperVars, threadVars, Idle,
         HostStates, NoClient
<1>2. ThreadInv'
  BY DEF IInv, TypeOK, ThreadInv, OpenMmNotificationClient, Goto, wrapperVars, threadVars, Idle,
         Starting, InLock, NoClient
<1>3. ClientInv'
  BY DEF IInv, TypeOK, ThreadInv, ClientInv, BuffersInv, OpenMmNotificationClient, Goto,
         wrapperVars, threadVars, Idle, Starting, NoClient
<1>4. BuffersInv'
  BY DEF IInv, TypeOK, ThreadInv, BuffersInv, OpenMmNotificationClient, Goto, wrapperVars,
         threadVars, Idle, Starting
<1>5. OfferInv'
  BY DEF IInv, TypeOK, OfferInv, OpenMmNotificationClient, Goto, wrapperVars, threadVars
<1>. QED BY <1>1, <1>2, <1>3, <1>4, <1>5 DEF IInv

LEMMA SetBufferLayoutKeeps ==
    ASSUME IInv, SetBufferLayout
    PROVE  IInv'
<1>1. TypeOK'
  BY DEF IInv, TypeOK, SetBufferLayout, Goto, wrapperVars, threadVars, Idle, HostStates, NoClient
<1>2. ThreadInv'
  BY DEF IInv, TypeOK, ThreadInv, SetBufferLayout, Goto, wrapperVars, threadVars, Idle,
         Starting, InLock, NoClient
<1>3. ClientInv'
  BY DEF IInv, TypeOK, ThreadInv, ClientInv, BuffersInv, SetBufferLayout, Goto, wrapperVars,
         threadVars, Idle, Starting, NoClient
<1>4. BuffersInv'
  BY DEF IInv, TypeOK, ThreadInv, BuffersInv, SetBufferLayout, Goto, wrapperVars, threadVars,
         Idle, Starting
<1>5. OfferInv'
  BY DEF IInv, TypeOK, OfferInv, SetBufferLayout, Goto, wrapperVars, threadVars
<1>. QED BY <1>1, <1>2, <1>3, <1>4, <1>5 DEF IInv

LEMMA CreateEndpointsKeeps ==
    ASSUME IInv, CreateEndpoints
    PROVE  IInv'
<1>1. TypeOK'
  BY DEF IInv, TypeOK, CreateEndpoints, Goto, wrapperVars, threadVars, Idle, HostStates, NoClient
<1>2. ThreadInv'
  BY DEF IInv, TypeOK, ThreadInv, CreateEndpoints, Goto, wrapperVars, threadVars, Idle,
         Starting, InLock, NoClient
<1>3. ClientInv'
  BY DEF IInv, TypeOK, ThreadInv, ClientInv, BuffersInv, CreateEndpoints, Goto, wrapperVars,
         threadVars, Idle, Starting, NoClient
<1>4. BuffersInv'
  BY DEF IInv, TypeOK, ThreadInv, BuffersInv, CreateEndpoints, Goto, wrapperVars, threadVars,
         Idle, Starting
<1>5. OfferInv'
  BY DEF IInv, TypeOK, OfferInv, CreateEndpoints, Goto, wrapperVars, threadVars
<1>. QED BY <1>1, <1>2, <1>3, <1>4, <1>5 DEF IInv

LEMMA StartInnerKeeps ==
    ASSUME IInv, StartInner
    PROVE  IInv'
<1>1. TypeOK'
  BY DEF IInv, TypeOK, StartInner, wrapperVars, threadVars, Idle, HostStates, NoClient
<1>2. ThreadInv'
  BY DEF IInv, TypeOK, ThreadInv, StartInner, wrapperVars, threadVars, Idle, Starting, InLock,
         NoClient
<1>3. ClientInv'
  BY DEF IInv, TypeOK, ThreadInv, ClientInv, BuffersInv, StartInner, wrapperVars, threadVars,
         Idle, Starting, NoClient
<1>4. BuffersInv'
  BY DEF IInv, TypeOK, ThreadInv, BuffersInv, StartInner, wrapperVars, threadVars, Idle, Starting
<1>5. OfferInv'
  BY DEF IInv, TypeOK, OfferInv, StartInner, wrapperVars, threadVars
<1>. QED BY <1>1, <1>2, <1>3, <1>4, <1>5 DEF IInv

LEMMA UnregisterKeeps ==
    ASSUME IInv, Unregister
    PROVE  IInv'
<1>1. TypeOK'
  BY DEF IInv, TypeOK, Unregister, Goto, AfterClient, wrapperVars, threadVars, Idle, HostStates,
         NoClient
<1>2. ThreadInv'
  BY DEF IInv, TypeOK, ThreadInv, Unregister, Goto, AfterClient, wrapperVars, threadVars, Idle,
         Starting, InLock, NoClient
<1>3. ClientInv'
  BY DEF IInv, TypeOK, ThreadInv, ClientInv, BuffersInv, Unregister, Goto, AfterClient,
         wrapperVars, threadVars, Idle, Starting, NoClient
<1>4. BuffersInv'
  BY DEF IInv, TypeOK, ThreadInv, BuffersInv, Unregister, Goto, AfterClient, wrapperVars,
         threadVars, Idle, Starting
<1>5. OfferInv'
  BY DEF IInv, TypeOK, OfferInv, Unregister, Goto, AfterClient, wrapperVars, threadVars
<1>. QED BY <1>1, <1>2, <1>3, <1>4, <1>5 DEF IInv

LEMMA LockForStopKeeps ==
    ASSUME IInv, LockForStop
    PROVE  IInv'
<1>1. TypeOK'
  BY DEF IInv, TypeOK, LockForStop, MayStop, Goto, wrapperVars, threadVars, Idle, HostStates,
         NoClient
<1>2. ThreadInv'
  BY DEF IInv, TypeOK, ThreadInv, LockForStop, MayStop, Goto, wrapperVars, threadVars, Idle,
         Starting, InLock, NoClient
<1>3. ClientInv'
  BY DEF IInv, TypeOK, ThreadInv, ClientInv, BuffersInv, LockForStop, MayStop, Goto,
         wrapperVars, threadVars, Idle, Starting, NoClient
<1>4. BuffersInv'
  BY DEF IInv, TypeOK, ThreadInv, BuffersInv, LockForStop, MayStop, Goto, wrapperVars,
         threadVars, Idle, Starting
<1>5. OfferInv'
  BY DEF IInv, TypeOK, OfferInv, LockForStop, MayStop, Goto, wrapperVars, threadVars
<1>. QED BY <1>1, <1>2, <1>3, <1>4, <1>5 DEF IInv

LEMMA CloseDeviceKeeps ==
    ASSUME IInv, CloseDevice
    PROVE  IInv'
<1>1. TypeOK'
  BY DEF IInv, TypeOK, CloseDevice, AfterClient, Goto, wrapperVars, threadVars, Idle,
         HostStates, NoClient
<1>2. ThreadInv'
  BY DEF IInv, TypeOK, ThreadInv, CloseDevice, AfterClient, Goto, wrapperVars, threadVars, Idle,
         Starting, InLock, NoClient
<1>3. ClientInv'
  BY DEF IInv, TypeOK, ThreadInv, ClientInv, BuffersInv, CloseDevice, AfterClient, Goto,
         wrapperVars, threadVars, Idle, Starting, NoClient
<1>4. BuffersInv'
  BY DEF IInv, TypeOK, ThreadInv, BuffersInv, CloseDevice, AfterClient, Goto, wrapperVars,
         threadVars, Idle, Starting
<1>5. OfferInv'
  BY DEF IInv, TypeOK, OfferInv, CloseDevice, AfterClient, Goto, wrapperVars, threadVars
<1>. QED BY <1>1, <1>2, <1>3, <1>4, <1>5 DEF IInv

LEMMA StopInnerKeeps ==
    ASSUME IInv, StopInner
    PROVE  IInv'
<1>1. TypeOK'
  <2>1. inner' = [inner EXCEPT !.running = FALSE]
        /\ UNCHANGED <<config, buffers, callbacks, reset, client, lock, tick, unheard>>
    BY DEF StopInner, wrapperVars
  <2>2. host' \in [pc : HostStates, then : {"nothing", "stopInner", "free"}]
    BY DEF IInv, TypeOK, StopInner, Goto, Idle, HostStates
  <2>3. inner' \in [present : BOOLEAN, sizes : InnerSizes, rate : SampleRates,
                    sampleType : SampleTypes, buffers : BOOLEAN, running : BOOLEAN]
    BY <2>1 DEF IInv, TypeOK
  <2>. QED BY <2>1, <2>2, <2>3 DEF IInv, TypeOK
<1>2. ThreadInv'
  BY DEF IInv, TypeOK, ThreadInv, StopInner, Goto, wrapperVars, threadVars, Idle, Starting,
         InLock, NoClient
<1>3. ClientInv'
  BY DEF IInv, TypeOK, ThreadInv, ClientInv, BuffersInv, StopInner, Goto, wrapperVars,
         threadVars, Idle, Starting, NoClient
<1>4. BuffersInv'
  BY DEF IInv, TypeOK, ThreadInv, BuffersInv, StopInner, Goto, wrapperVars, threadVars, Idle,
         Starting
<1>5. OfferInv'
  BY DEF IInv, TypeOK, OfferInv, StopInner, Goto, wrapperVars, threadVars
<1>. QED BY <1>1, <1>2, <1>3, <1>4, <1>5 DEF IInv

LEMMA FreeBuffersKeeps ==
    ASSUME IInv, FreeBuffers
    PROVE  IInv'
<1>1. TypeOK'
  BY DEF IInv, TypeOK, FreeBuffers, NoBuffers, NoCallbacks, wrapperVars, threadVars, Idle,
         HostStates, NoClient
<1>2. ThreadInv'
  BY DEF IInv, TypeOK, ThreadInv, FreeBuffers, NoBuffers, NoCallbacks, wrapperVars, threadVars,
         Idle, Starting, InLock, NoClient
<1>3. ClientInv'
  BY DEF IInv, TypeOK, ThreadInv, ClientInv, BuffersInv, FreeBuffers, NoBuffers, NoCallbacks,
         wrapperVars, threadVars, Idle, Starting, NoClient
<1>4. BuffersInv'
  BY DEF IInv, TypeOK, ThreadInv, BuffersInv, FreeBuffers, NoBuffers, NoCallbacks, wrapperVars,
         threadVars, Idle, Starting
<1>5. OfferInv'
  BY DEF IInv, TypeOK, OfferInv, FreeBuffers, NoBuffers, NoCallbacks, wrapperVars, threadVars
<1>. QED BY <1>1, <1>2, <1>3, <1>4, <1>5 DEF IInv

LEMMA DisposeFakeBuffersKeeps ==
    ASSUME IInv, DisposeFakeBuffers
    PROVE  IInv'
<1>1. TypeOK'
  BY DEF IInv, TypeOK, DisposeFakeBuffers, wrapperVars, threadVars, Idle, HostStates, NoClient
<1>2. ThreadInv'
  BY DEF IInv, TypeOK, ThreadInv, DisposeFakeBuffers, wrapperVars, threadVars, Idle, Starting,
         InLock, NoClient
<1>3. ClientInv'
  BY DEF IInv, TypeOK, ThreadInv, ClientInv, BuffersInv, DisposeFakeBuffers, wrapperVars,
         threadVars, Idle, Starting, NoClient
<1>4. BuffersInv'
  BY DEF IInv, TypeOK, ThreadInv, BuffersInv, DisposeFakeBuffers, wrapperVars, threadVars, Idle,
         Starting
<1>5. OfferInv'
  BY DEF IInv, TypeOK, OfferInv, DisposeFakeBuffers, wrapperVars, threadVars
<1>. QED BY <1>1, <1>2, <1>3, <1>4, <1>5 DEF IInv

LEMMA DisposeBuffersKeeps ==
    ASSUME IInv, DisposeBuffers
    PROVE  IInv'
<1>1. TypeOK'
  BY DEF IInv, TypeOK, DisposeBuffers, DisposeEntry, wrapperVars, threadVars, Idle, HostStates,
         NoClient
<1>2. ThreadInv'
  BY DEF IInv, TypeOK, ThreadInv, DisposeBuffers, DisposeEntry, wrapperVars, threadVars, Idle,
         Starting, InLock, NoClient
<1>3. ClientInv'
  BY DEF IInv, TypeOK, ThreadInv, ClientInv, BuffersInv, DisposeBuffers, DisposeEntry,
         wrapperVars, threadVars, Idle, Starting, NoClient
<1>4. BuffersInv'
  BY DEF IInv, TypeOK, ThreadInv, BuffersInv, DisposeBuffers, DisposeEntry, wrapperVars,
         threadVars, Idle, Starting
<1>5. OfferInv'
  BY DEF IInv, TypeOK, OfferInv, DisposeBuffers, DisposeEntry, wrapperVars, threadVars
<1>. QED BY <1>1, <1>2, <1>3, <1>4, <1>5 DEF IInv

LEMMA StartKeeps ==
    ASSUME IInv, Start
    PROVE  IInv'
<1>1. TypeOK'
  BY DEF IInv, TypeOK, Start, NewClient, NoClient, wrapperVars, threadVars, Idle, HostStates,
         NoClient
<1>2. ThreadInv'
  BY DEF IInv, TypeOK, ThreadInv, Start, NewClient, NoClient, wrapperVars, threadVars, Idle,
         Starting, InLock, NoClient
<1>3. ClientInv'
  BY DEF IInv, TypeOK, ThreadInv, ClientInv, BuffersInv, Start, NewClient, NoClient,
         wrapperVars, threadVars, Idle, Starting, NoClient
<1>4. BuffersInv'
  BY DEF IInv, TypeOK, ThreadInv, BuffersInv, Start, NewClient, NoClient, wrapperVars,
         threadVars, Idle, Starting
<1>5. OfferInv'
  BY DEF IInv, TypeOK, OfferInv, Start, NewClient, NoClient, wrapperVars, threadVars
<1>. QED BY <1>1, <1>2, <1>3, <1>4, <1>5 DEF IInv

LEMMA StopKeeps ==
    ASSUME IInv, Stop
    PROVE  IInv'
<1>1. TypeOK'
  BY DEF IInv, TypeOK, Stop, wrapperVars, threadVars, Idle, HostStates, NoClient
<1>2. ThreadInv'
  BY DEF IInv, TypeOK, ThreadInv, Stop, wrapperVars, threadVars, Idle, Starting, InLock, NoClient
<1>3. ClientInv'
  BY DEF IInv, TypeOK, ThreadInv, ClientInv, BuffersInv, Stop, wrapperVars, threadVars, Idle,
         Starting, NoClient
<1>4. BuffersInv'
  BY DEF IInv, TypeOK, ThreadInv, BuffersInv, Stop, wrapperVars, threadVars, Idle, Starting
<1>5. OfferInv'
  BY DEF IInv, TypeOK, OfferInv, Stop, wrapperVars, threadVars
<1>. QED BY <1>1, <1>2, <1>3, <1>4, <1>5 DEF IInv

\* A wrapper that is made anew has no buffers, no callbacks and no client.
LEMMA LoadedAnewKeeps ==
    ASSUME IInv, host = Idle, ~inner.buffers, LoadedAnew
    PROVE  IInv'
<1>0. /\ buffers' = NoBuffers /\ callbacks' = NoCallbacks /\ client' = NoClient
      /\ reset' = FALSE /\ unheard' = FALSE /\ offered' = NoSizes
      /\ UNCHANGED <<config, inner, lock, host, tick>>
  BY DEF LoadedAnew, threadVars
<1>1. ~inner.running
  BY DEF IInv, BuffersInv
<1>2. TypeOK'
  <2>1. /\ DOMAIN buffers' = DOMAIN NoBuffers /\ buffers'.sampleSize \in 0..4
        /\ buffers'.period > 0 => buffers'.sampleSize \in 1..4
        /\ DOMAIN client' = DOMAIN NoClient
    BY <1>0 DEF NoBuffers
  <2>2. callbacks' \in [asioMessage : BOOLEAN, userTick : BOOLEAN, active : BOOLEAN]
    BY <1>0 DEF NoCallbacks
  <2>. QED BY <1>0, <2>1, <2>2 DEF IInv, TypeOK
<1>3. ThreadInv'
  BY <1>0, <1>1 DEF IInv, ThreadInv, Idle, Starting, InLock
<1>4. ClientInv'
  BY <1>0, <1>1 DEF ClientInv, NoClient, Idle, Starting
<1>5. BuffersInv'
  BY <1>0, <1>1 DEF BuffersInv, Idle
<1>6. OfferInv'
  BY <1>0 DEF OfferInv
<1>. QED BY <1>2, <1>3, <1>4, <1>5, <1>6 DEF IInv

LEMMA ReloadKeeps ==
    ASSUME IInv, Reload
    PROVE  IInv'
BY LoadedAnewKeeps DEF Reload

LEMMA CreateBuffersDiesKeeps ==
    ASSUME IInv, NEW infos, NEW size, CreateBuffersDies(infos, size)
    PROVE  IInv'
BY LoadedAnewKeeps DEF CreateBuffersDies, MayCreate

LEMMA GetBufferSizeKeeps ==
    ASSUME IInv, GetBufferSize
    PROVE  IInv'
<1>1. TypeOK'
  BY DEF IInv, TypeOK, GetBufferSize, wrapperVars, threadVars, Idle, HostStates, NoClient
<1>2. ThreadInv'
  BY DEF IInv, TypeOK, ThreadInv, GetBufferSize, wrapperVars, threadVars, Idle, Starting,
         InLock, NoClient
<1>3. ClientInv'
  BY DEF IInv, TypeOK, ThreadInv, ClientInv, BuffersInv, GetBufferSize, wrapperVars, threadVars,
         Idle, Starting, NoClient
<1>4. BuffersInv'
  BY DEF IInv, TypeOK, ThreadInv, BuffersInv, GetBufferSize, wrapperVars, threadVars, Idle, Starting
<1>5. OfferInv'
  BY DEF IInv, TypeOK, OfferInv, GetBufferSize, wrapperVars, threadVars
<1>. QED BY <1>1, <1>2, <1>3, <1>4, <1>5 DEF IInv

LEMMA SetSampleRateKeeps ==
    ASSUME IInv, NEW rate \in SampleRates, SetSampleRate(rate)
    PROVE  IInv'
<1>1. TypeOK'
  BY DEF IInv, TypeOK, SetSampleRate, wrapperVars, threadVars, Idle, HostStates, NoClient
<1>2. ThreadInv'
  BY DEF IInv, TypeOK, ThreadInv, SetSampleRate, wrapperVars, threadVars, Idle, Starting,
         InLock, NoClient
<1>3. ClientInv'
  BY DEF IInv, TypeOK, ThreadInv, ClientInv, BuffersInv, SetSampleRate, wrapperVars, threadVars,
         Idle, Starting, NoClient
<1>4. BuffersInv'
  BY DEF IInv, TypeOK, ThreadInv, BuffersInv, SetSampleRate, wrapperVars, threadVars, Idle, Starting
<1>5. OfferInv'
  BY DEF IInv, TypeOK, OfferInv, SetSampleRate, wrapperVars, threadVars
<1>. QED BY <1>1, <1>2, <1>3, <1>4, <1>5 DEF IInv

LEMMA OnConfigureHardwareInterfaceKeeps ==
    ASSUME IInv, NEW sizes \in InnerSizes, OnConfigureHardwareInterface(sizes)
    PROVE  IInv'
<1>1. TypeOK'
  BY DEF IInv, TypeOK, OnConfigureHardwareInterface, wrapperVars, threadVars, Idle, HostStates,
         NoClient
<1>2. ThreadInv'
  BY DEF IInv, TypeOK, ThreadInv, OnConfigureHardwareInterface, wrapperVars, threadVars, Idle,
         Starting, InLock, NoClient
<1>3. ClientInv'
  BY DEF IInv, TypeOK, ThreadInv, ClientInv, BuffersInv, OnConfigureHardwareInterface,
         wrapperVars, threadVars, Idle, Starting, NoClient
<1>4. BuffersInv'
  BY DEF IInv, TypeOK, ThreadInv, BuffersInv, OnConfigureHardwareInterface, wrapperVars,
         threadVars, Idle, Starting
<1>5. OfferInv'
  BY DEF IInv, TypeOK, OfferInv, OnConfigureHardwareInterface, wrapperVars, threadVars
<1>. QED BY <1>1, <1>2, <1>3, <1>4, <1>5 DEF IInv

LEMMA ControlPanelKeeps ==
    ASSUME IInv, NEW new \in Configs, ControlPanel(new)
    PROVE  IInv'
<1>1. TypeOK'
  BY DEF IInv, TypeOK, ControlPanel, RequestsReset, wrapperVars, threadVars, Idle, HostStates,
         NoClient
<1>2. ThreadInv'
  BY DEF IInv, TypeOK, ThreadInv, ControlPanel, RequestsReset, wrapperVars, threadVars, Idle,
         Starting, InLock, NoClient
<1>3. ClientInv'
  BY DEF IInv, TypeOK, ThreadInv, ClientInv, BuffersInv, ControlPanel, RequestsReset,
         wrapperVars, threadVars, Idle, Starting, NoClient
<1>4. BuffersInv'
  BY DEF IInv, TypeOK, ThreadInv, BuffersInv, ControlPanel, RequestsReset, wrapperVars,
         threadVars, Idle, Starting
<1>5. OfferInv'
  BY DEF IInv, TypeOK, OfferInv, ControlPanel, RequestsReset, wrapperVars, threadVars
<1>. QED BY <1>1, <1>2, <1>3, <1>4, <1>5 DEF IInv

LEMMA OnTickStubKeeps ==
    ASSUME IInv, OnTickStub
    PROVE  IInv'
<1>1. TypeOK'
  BY DEF IInv, TypeOK, OnTickStub, wrapperVars, threadVars, Idle, HostStates, NoClient
<1>2. ThreadInv'
  BY DEF IInv, TypeOK, ThreadInv, OnTickStub, wrapperVars, threadVars, Idle, Starting, InLock,
         NoClient
<1>3. ClientInv'
  BY DEF IInv, TypeOK, ThreadInv, ClientInv, BuffersInv, OnTickStub, wrapperVars, threadVars,
         Idle, Starting, NoClient
<1>4. BuffersInv'
  BY DEF IInv, TypeOK, ThreadInv, BuffersInv, OnTickStub, wrapperVars, threadVars, Idle, Starting
<1>5. OfferInv'
  BY DEF IInv, TypeOK, OfferInv, OnTickStub, wrapperVars, threadVars
<1>. QED BY <1>1, <1>2, <1>3, <1>4, <1>5 DEF IInv

LEMMA LockForTickKeeps ==
    ASSUME IInv, LockForTick
    PROVE  IInv'
<1>1. TypeOK'
  BY DEF IInv, TypeOK, LockForTick, wrapperVars, threadVars, Idle, HostStates, NoClient
<1>2. ThreadInv'
  BY DEF IInv, TypeOK, ThreadInv, LockForTick, wrapperVars, threadVars, Idle, Starting, InLock,
         NoClient
<1>3. ClientInv'
  BY DEF IInv, TypeOK, ThreadInv, ClientInv, BuffersInv, LockForTick, wrapperVars, threadVars,
         Idle, Starting, NoClient
<1>4. BuffersInv'
  BY DEF IInv, TypeOK, ThreadInv, BuffersInv, LockForTick, wrapperVars, threadVars, Idle, Starting
<1>5. OfferInv'
  BY DEF IInv, TypeOK, OfferInv, LockForTick, wrapperVars, threadVars
<1>. QED BY <1>1, <1>2, <1>3, <1>4, <1>5 DEF IInv

LEMMA TakeFlagKeeps ==
    ASSUME IInv, TakeFlag
    PROVE  IInv'
<1>1. TypeOK'
  <2>1. unheard' \in BOOLEAN
    BY DEF IInv, TypeOK, TakeFlag
  <2>2. client' = [client EXCEPT !.flag = FALSE] /\ tick' \in {"send", "copy"}
        /\ UNCHANGED <<config, inner, buffers, callbacks, reset, lock, host>>
    BY DEF TakeFlag, wrapperVars
  <2>3. DOMAIN client' = DOMAIN client
    BY <2>2
  <2>. QED BY <2>1, <2>2, <2>3 DEF IInv, TypeOK
<1>2. ThreadInv'
  BY DEF IInv, TypeOK, ThreadInv, TakeFlag, wrapperVars, threadVars, Idle, Starting, InLock,
         NoClient
<1>3. ClientInv'
  BY DEF IInv, TypeOK, ThreadInv, ClientInv, BuffersInv, TakeFlag, wrapperVars, threadVars,
         Idle, Starting, NoClient
<1>4. BuffersInv'
  BY DEF IInv, TypeOK, ThreadInv, BuffersInv, TakeFlag, wrapperVars, threadVars, Idle, Starting
<1>5. OfferInv'
  BY DEF IInv, TypeOK, OfferInv, TakeFlag, wrapperVars, threadVars
<1>. QED BY <1>1, <1>2, <1>3, <1>4, <1>5 DEF IInv

LEMMA SendFormatChangeEventKeeps ==
    ASSUME IInv, SendFormatChangeEvent
    PROVE  IInv'
<1>1. TypeOK'
  BY DEF IInv, TypeOK, SendFormatChangeEvent, AfterSend, wrapperVars, threadVars, Idle,
         HostStates, NoClient
<1>2. ThreadInv'
  BY DEF IInv, TypeOK, ThreadInv, SendFormatChangeEvent, AfterSend, wrapperVars, threadVars,
         Idle, Starting, InLock, NoClient
<1>3. ClientInv'
  BY DEF IInv, TypeOK, ThreadInv, ClientInv, BuffersInv, SendFormatChangeEvent, AfterSend,
         wrapperVars, threadVars, Idle, Starting, NoClient
<1>4. BuffersInv'
  BY DEF IInv, TypeOK, ThreadInv, BuffersInv, SendFormatChangeEvent, AfterSend, wrapperVars,
         threadVars, Idle, Starting
<1>5. OfferInv'
  BY DEF IInv, TypeOK, OfferInv, SendFormatChangeEvent, AfterSend, wrapperVars, threadVars
<1>. QED BY <1>1, <1>2, <1>3, <1>4, <1>5 DEF IInv

LEMMA CopyEndpointsKeeps ==
    ASSUME IInv, CopyEndpoints
    PROVE  IInv'
<1>1. TypeOK'
  BY DEF IInv, TypeOK, CopyEndpoints, wrapperVars, threadVars, Idle, HostStates, NoClient
<1>2. ThreadInv'
  BY DEF IInv, TypeOK, ThreadInv, CopyEndpoints, wrapperVars, threadVars, Idle, Starting,
         InLock, NoClient
<1>3. ClientInv'
  BY DEF IInv, TypeOK, ThreadInv, ClientInv, BuffersInv, CopyEndpoints, wrapperVars, threadVars,
         Idle, Starting, NoClient
<1>4. BuffersInv'
  BY DEF IInv, TypeOK, ThreadInv, BuffersInv, CopyEndpoints, wrapperVars, threadVars, Idle, Starting
<1>5. OfferInv'
  BY DEF IInv, TypeOK, OfferInv, CopyEndpoints, wrapperVars, threadVars
<1>. QED BY <1>1, <1>2, <1>3, <1>4, <1>5 DEF IInv

LEMMA UserTickKeeps ==
    ASSUME IInv, UserTick
    PROVE  IInv'
<1>1. TypeOK'
  BY DEF IInv, TypeOK, UserTick, wrapperVars, threadVars, Idle, HostStates, NoClient
<1>2. ThreadInv'
  BY DEF IInv, TypeOK, ThreadInv, UserTick, wrapperVars, threadVars, Idle, Starting, InLock,
         NoClient
<1>3. ClientInv'
  BY DEF IInv, TypeOK, ThreadInv, ClientInv, BuffersInv, UserTick, wrapperVars, threadVars,
         Idle, Starting, NoClient
<1>4. BuffersInv'
  BY DEF IInv, TypeOK, ThreadInv, BuffersInv, UserTick, wrapperVars, threadVars, Idle, Starting
<1>5. OfferInv'
  BY DEF IInv, TypeOK, OfferInv, UserTick, wrapperVars, threadVars
<1>. QED BY <1>1, <1>2, <1>3, <1>4, <1>5 DEF IInv

LEMMA OnDeviceStateChangedKeeps ==
    ASSUME IInv, OnDeviceStateChanged
    PROVE  IInv'
<1>1. TypeOK'
  BY DEF IInv, TypeOK, OnDeviceStateChanged, wrapperVars, threadVars, Idle, HostStates, NoClient
<1>2. ThreadInv'
  BY DEF IInv, TypeOK, ThreadInv, OnDeviceStateChanged, wrapperVars, threadVars, Idle, Starting,
         InLock, NoClient
<1>3. ClientInv'
  BY DEF IInv, TypeOK, ThreadInv, ClientInv, BuffersInv, OnDeviceStateChanged, wrapperVars,
         threadVars, Idle, Starting, NoClient
<1>4. BuffersInv'
  BY DEF IInv, TypeOK, ThreadInv, BuffersInv, OnDeviceStateChanged, wrapperVars, threadVars,
         Idle, Starting
<1>5. OfferInv'
  BY DEF IInv, TypeOK, OfferInv, OnDeviceStateChanged, wrapperVars, threadVars
<1>. QED BY <1>1, <1>2, <1>3, <1>4, <1>5 DEF IInv

LEMMA SampleSizeBounds ==
    ASSUME NEW sampleType
    PROVE  GetSampleSize(GetSampleType(sampleType)) \in {2, 3, 4}
BY DEF GetSampleSize, GetSampleType

EndpointRecords == [type : {"Playback", "Recording"}, channelCount : Nat]

\* createBuffers makes a row for each endpoint, of one buffer for each channel.
LEMMA RowsFit ==
    ASSUME TypeOK, NEW infos
    PROVE  Fits(Rows(infos), config)
<1>1. config \in Seq([type : {"Playback", "Recording"}, channelCount : Nat])
  BY AsioWrapperAssumption DEF TypeOK
<1>2. ASSUME NEW e \in DOMAIN config
      PROVE  e \in DOMAIN Rows(infos) /\ Len(Rows(infos)[e]) = config[e].channelCount
  <2>1. config[e].channelCount \in Nat
    <3>1. PICK endpoints \in Seq(EndpointRecords) : endpoints = config
      BY <1>1 DEF EndpointRecords
    <3>2. endpoints[e] \in EndpointRecords
      BY <1>2, <3>1
    <3>. QED BY <3>1, <3>2 DEF EndpointRecords
  <2>. DEFINE here(c) == {i \in infos : IsVirtual(i) /\ SlotOf(i) = <<e, c>>}
              slot(c) == IF here(c) = {} THEN NoSlot ELSE CHOOSE i \in here(c) : TRUE
  <2>2. Rows(infos)[e] = [c \in 1..config[e].channelCount |-> slot(c)]
    BY <1>2 DEF Rows
  <2>3. DOMAIN Rows(infos) = DOMAIN config
    BY DEF Rows
  <2>. HIDE DEF slot
  <2>4. Len([c \in 1..config[e].channelCount |-> slot(c)]) = config[e].channelCount
    BY <2>1
  <2>. QED BY <1>2, <2>2, <2>3, <2>4
<1>. QED BY <1>2 DEF Fits

LEMMA CreateBuffersKeeps ==
    ASSUME IInv, NEW infos \in Infos, NEW size, CreateBuffers(infos, size)
    PROVE  IInv'
<1>1. TypeOK'
  <2>1. /\ DOMAIN buffers' = DOMAIN NoBuffers
        /\ buffers'.sampleSize = GetSampleSize(GetSampleType(inner.sampleType))
    BY DEF CreateBuffers, NoBuffers
  <2>2. buffers'.sampleSize \in 1..4 /\ buffers'.sampleSize \in 0..4
    BY <2>1, SampleSizeBounds
  <2>3. callbacks' \in [asioMessage : BOOLEAN, userTick : BOOLEAN, active : BOOLEAN]
    BY DEF CreateBuffers
  <2>4. inner' \in [present : BOOLEAN, sizes : InnerSizes, rate : SampleRates,
                    sampleType : SampleTypes, buffers : BOOLEAN, running : BOOLEAN]
    BY DEF IInv, TypeOK, CreateBuffers
  <2>5. UNCHANGED <<config, reset, client, lock, host, tick, unheard>>
    BY DEF CreateBuffers, threadVars
  <2>. QED BY <2>1, <2>2, <2>3, <2>4, <2>5 DEF IInv, TypeOK
<1>2. ThreadInv'
  BY DEF IInv, TypeOK, ThreadInv, CreateBuffers, MayCreate, wrapperVars, threadVars, Idle,
         Starting, InLock
<1>3. ClientInv'
  BY DEF IInv, TypeOK, ThreadInv, ClientInv, BuffersInv, CreateBuffers, MayCreate, wrapperVars,
         threadVars, Idle, Starting
<1>4. BuffersInv'
  BY RowsFit DEF IInv, TypeOK, ThreadInv, BuffersInv, CreateBuffers, MayCreate, wrapperVars,
                 threadVars, Idle, Starting
<1>5. OfferInv'
  BY DEF IInv, TypeOK, OfferInv, CreateBuffers, MayCreate, wrapperVars, threadVars
<1>. QED BY <1>1, <1>2, <1>3, <1>4, <1>5 DEF IInv

LEMMA CreateBuffersRefusedKeeps ==
    ASSUME IInv, NEW infos \in Infos, NEW size, CreateBuffersRefused(infos, size)
    PROVE  IInv'
<1>1. TypeOK'
  BY DEF IInv, TypeOK, CreateBuffersRefused, MayCreate, wrapperVars, threadVars, Idle,
         HostStates, NoClient
<1>2. ThreadInv'
  BY DEF IInv, TypeOK, ThreadInv, CreateBuffersRefused, MayCreate, wrapperVars, threadVars,
         Idle, Starting, InLock
<1>3. ClientInv'
  BY DEF IInv, TypeOK, ThreadInv, ClientInv, BuffersInv, CreateBuffersRefused, MayCreate,
         wrapperVars, threadVars, Idle, Starting
<1>4. BuffersInv'
  BY DEF IInv, TypeOK, ThreadInv, BuffersInv, CreateBuffersRefused, MayCreate, wrapperVars,
         threadVars, Idle, Starting
<1>5. OfferInv'
  BY DEF IInv, TypeOK, OfferInv, CreateBuffersRefused, MayCreate, wrapperVars, threadVars
<1>. QED BY <1>1, <1>2, <1>3, <1>4, <1>5 DEF IInv

LEMMA CreateBuffersFailsKeeps ==
    ASSUME IInv, NEW infos \in Infos, NEW size, CreateBuffersFails(infos, size)
    PROVE  IInv'
<1>1. TypeOK'
  BY DEF IInv, TypeOK, CreateBuffersFails, MayCreate, wrapperVars, threadVars, Idle, HostStates,
         NoClient
<1>2. ThreadInv'
  BY DEF IInv, TypeOK, ThreadInv, CreateBuffersFails, MayCreate, wrapperVars, threadVars, Idle,
         Starting, InLock
<1>3. ClientInv'
  BY DEF IInv, TypeOK, ThreadInv, ClientInv, BuffersInv, CreateBuffersFails, MayCreate,
         wrapperVars, threadVars, Idle, Starting
<1>4. BuffersInv'
  BY DEF IInv, TypeOK, ThreadInv, BuffersInv, CreateBuffersFails, MayCreate, wrapperVars,
         threadVars, Idle, Starting
<1>5. OfferInv'
  BY DEF IInv, TypeOK, OfferInv, CreateBuffersFails, MayCreate, wrapperVars, threadVars
<1>. QED BY <1>1, <1>2, <1>3, <1>4, <1>5 DEF IInv

LEMMA CreateFakeBuffersKeeps ==
    ASSUME IInv, NEW infos \in Infos, CreateFakeBuffers(infos)
    PROVE  IInv'
<1>1. TypeOK'
  BY DEF IInv, TypeOK, CreateFakeBuffers, wrapperVars, threadVars, Idle, HostStates, NoClient
<1>2. ThreadInv'
  BY DEF IInv, TypeOK, ThreadInv, CreateFakeBuffers, wrapperVars, threadVars, Idle, Starting, InLock
<1>3. ClientInv'
  BY DEF IInv, TypeOK, ThreadInv, ClientInv, BuffersInv, CreateFakeBuffers, wrapperVars,
         threadVars, Idle, Starting
<1>4. BuffersInv'
  BY DEF IInv, TypeOK, ThreadInv, BuffersInv, CreateFakeBuffers, wrapperVars, threadVars, Idle,
         Starting
<1>5. OfferInv'
  BY DEF IInv, TypeOK, OfferInv, CreateFakeBuffers, wrapperVars, threadVars
<1>. QED BY <1>1, <1>2, <1>3, <1>4, <1>5 DEF IInv


-----------------------------------------------------------------------------
(* The invariant *)

LEMMA InitIInv == Init => IInv
<1>. SUFFICES ASSUME Init PROVE IInv
  OBVIOUS
<1>1. PICK present \in Interfaces, s \in InnerSizes, r \in SampleRates, t \in SampleTypes :
         inner = NewInner(present, s, r, t)
  BY DEF Init
<1>2. inner \in [present : BOOLEAN, sizes : InnerSizes, rate : SampleRates,
                 sampleType : SampleTypes, buffers : BOOLEAN, running : BOOLEAN]
      /\ ~inner.buffers /\ ~inner.running
  BY <1>1, AsioWrapperAssumption DEF NewInner
<1>3. TypeOK
  <2>1. /\ DOMAIN buffers = DOMAIN NoBuffers /\ buffers.sampleSize \in 0..4
        /\ buffers.period > 0 => buffers.sampleSize \in 1..4
        /\ DOMAIN client = DOMAIN NoClient
    BY DEF Init, NoBuffers
  <2>2. callbacks \in [asioMessage : BOOLEAN, userTick : BOOLEAN, active : BOOLEAN]
    BY DEF Init, NoCallbacks
  <2>3. host \in [pc : HostStates, then : {"nothing", "stopInner", "free"}]
    BY DEF Init, Idle, HostStates
  <2>4. config \in Configs /\ reset \in BOOLEAN /\ unheard \in BOOLEAN
        /\ lock = "free" /\ tick = "idle"
    BY DEF Init
  <2>. QED BY <1>2, <2>1, <2>2, <2>3, <2>4 DEF TypeOK
<1>4. ThreadInv
  BY <1>2 DEF Init, ThreadInv, Idle, InLock, Starting
<1>5. ClientInv
  BY <1>2 DEF Init, ClientInv, NoClient, Idle, Starting
<1>6. BuffersInv /\ OfferInv
  BY <1>2 DEF Init, BuffersInv, OfferInv, Idle
<1>. QED BY <1>3, <1>4, <1>5, <1>6 DEF IInv

LEMMA StutterKeeps ==
    ASSUME IInv, UNCHANGED vars
    PROVE  IInv'
BY DEF vars, IInv, TypeOK, ThreadInv, ClientInv, BuffersInv, OfferInv, Fits,
       InitVirtualChannels, OfferedSizes

LEMMA HostCallKeeps ==
    ASSUME IInv, HostCall
    PROVE  IInv'
<1>1. ASSUME NEW infos \in Infos, NEW size \in HostSizes(offered),
             \/ CreateBuffers(infos, size) \/ CreateBuffersDies(infos, size)
             \/ CreateBuffersRefused(infos, size)
             \/ CreateBuffersFails(infos, size)
      PROVE  IInv'
  BY <1>1, CreateBuffersKeeps, CreateBuffersDiesKeeps, CreateBuffersRefusedKeeps,
     CreateBuffersFailsKeeps
<1>2. ASSUME NEW rate \in SampleRates, SetSampleRate(rate)
      PROVE  IInv'
  BY <1>2, SetSampleRateKeeps
<1>3. ASSUME NEW sizes \in InnerSizes, OnConfigureHardwareInterface(sizes)
      PROVE  IInv'
  BY <1>3, OnConfigureHardwareInterfaceKeeps
<1>4. ASSUME NEW infos \in Infos, CreateFakeBuffers(infos)
      PROVE  IInv'
  BY <1>4, CreateFakeBuffersKeeps
<1>5. ASSUME NEW new \in Configs, ControlPanel(new)
      PROVE  IInv'
  BY <1>5, ControlPanelKeeps
<1>. QED BY <1>1, <1>2, <1>3, <1>4, <1>5, GetBufferSizeKeeps, DisposeFakeBuffersKeeps,
           DisposeBuffersKeeps, StartKeeps, StopKeeps, ReloadKeeps DEF HostCall

LEMMA NextKeepsIInv == IInv /\ [Next]_vars => IInv'
<1>. SUFFICES ASSUME IInv, [Next]_vars PROVE IInv'
  OBVIOUS
<1>1. CASE HostStep
  BY <1>1, OpenControlDeviceKeeps, OpenMmNotificationClientKeeps, SetBufferLayoutKeeps,
     CreateEndpointsKeeps, StartInnerKeeps, UnregisterKeeps, LockForStopKeeps,
     CloseDeviceKeeps, StopInnerKeeps, FreeBuffersKeeps DEF HostStep
<1>2. CASE TickStep
  BY <1>2, OnTickStubKeeps, LockForTickKeeps, TakeFlagKeeps, SendFormatChangeEventKeeps,
     CopyEndpointsKeeps, UserTickKeeps DEF TickStep
<1>. QED BY <1>1, <1>2, HostCallKeeps, OnDeviceStateChangedKeeps, StutterKeeps DEF Next

\* Who holds the mutex, who may tick and what is there while it is so.
THEOREM ThreadsInvariant == Spec => []IInv
<1>. QED BY InitIInv, NextKeepsIInv, PTL DEF Spec

\* Every variable keeps its type, whatever the three threads interleave to.
THEOREM Typed == Spec => []TypeOK
<1>1. IInv => TypeOK
  BY DEF IInv
<1>. QED BY <1>1, ThreadsInvariant, PTL

\* A tick finds the client, the shared buffer, the virtual buffers, a row for
\* each endpoint and the host's callback, with any configurations and however
\* it interleaves with stop, disposeBuffers and the dialog.
THEOREM TickFindsItsMemory == Spec => []TickTouchesLiveMemory
<1>1. IInv => TickTouchesLiveMemory
  <2>. SUFFICES ASSUME IInv PROVE TickTouchesLiveMemory
    OBVIOUS
  <2>1. tick # "idle" => client.made /\ ~client.freed /\ callbacks.userTick
    BY DEF IInv, ThreadInv, ClientInv, BuffersInv
  <2>2. tick = "copy" => client.registers /\ client.device /\ Fits(client.rows, client.endpoints)
    BY <2>1 DEF IInv, ThreadInv, ClientInv, InLock
  <2>. QED BY <2>1, <2>2 DEF TickTouchesLiveMemory, Fits
<1>. QED BY <1>1, ThreadsInvariant, PTL

-----------------------------------------------------------------------------
(* Recursive definitions                                                   *)

LEMMA LeastElement ==
    ASSUME NEW S \in SUBSET Nat, S # {}
    PROVE  \E x \in S : \A y \in S : x <= y
<1>. DEFINE R == {p \in Nat \X Nat : p[1] < p[2]}
<1>1. IsWellFoundedOn(R, Nat)
  BY NatLessThanWellFounded DEF OpToRel
<1>2. \E x \in S : \A y \in S : ~(<<y, x>> \in R)
  BY <1>1, WFMin
<1>3. ASSUME NEW x \in Nat, NEW y \in Nat, ~(<<y, x>> \in R)
      PROVE  x <= y
  <2>1. ~(y < x)
    BY <1>3
  <2>. QED BY <2>1
<1>. HIDE DEF R
<1>. QED BY <1>2, <1>3

\* What FlattenSeq makes of sequences of S is a sequence of S: its recursive
\* function exists, since each part of it extends to the next place, and keeps
\* to S from each place to the next.
LEMMA Flattened ==
    ASSUME NEW S, NEW s \in Seq(Seq(S))
    PROVE  FlattenSeq(s) \in Seq(S)
<1>. DEFINE n == Len(s)
            Body(f, i) == IF i = 1 THEN s[i] ELSE f[i - 1] \o s[i]
            Part(m, f) == f = [i \in 1..m |-> Body(f, i)]
<1>1. CASE n = 0
  BY <1>1 DEF FlattenSeq
<1>2. CASE n # 0
  <2>1. n \in Nat \ {0} /\ \A i \in 1..n : s[i] \in Seq(S)
    BY <1>2
  <2>2. FlattenSeq(s) = (CHOOSE f : Part(n, f))[n]
    BY <1>2 DEF FlattenSeq
  <2>3. \E f : Part(1, f)
    <3>. DEFINE f == [i \in 1..1 |-> s[1]]
    <3>1. Part(1, f)
      OBVIOUS
    <3>. QED BY <3>1
  <2>4. ASSUME NEW m \in 1..n, m # 1, NEW f, Part(m - 1, f)
        PROVE  \E g : Part(m, g)
    <3>. DEFINE g == [i \in 1..m |-> IF i < m THEN f[i] ELSE f[m - 1] \o s[m]]
    <3>1. m \in Nat /\ m > 1 /\ m - 1 \in 1..(m - 1)
      BY <2>1, <2>4
    <3>2. ASSUME NEW i \in 1..m PROVE g[i] = Body(g, i)
      <4>1. CASE i = m
        <5>1. g[m - 1] = f[m - 1]
          BY <3>1
        <5>. QED BY <3>1, <4>1, <5>1
      <4>2. CASE i # m
        <5>1. i \in 1..(m - 1) /\ i < m
          BY <3>1, <4>2
        <5>2. f[i] = Body(f, i)
          BY <2>4, <5>1
        <5>3. i # 1 => g[i - 1] = f[i - 1]
          BY <3>1, <5>1
        <5>. QED BY <5>1, <5>2, <5>3
      <4>. QED BY <4>1, <4>2
    <3>3. g = [i \in 1..m |-> g[i]]
      OBVIOUS
    <3>. HIDE DEF g, Body
    <3>4. Part(m, g)
      BY <3>2, <3>3
    <3>. HIDE DEF Part
    <3>. QED BY <3>4
  <2>. HIDE DEF Part, n
  <2>5. \E f : Part(n, f)
    <3>. DEFINE Without == {m \in 1..n : ~\E f : Part(m, f)}
    <3>1. SUFFICES ASSUME Without # {} PROVE FALSE
      <4>1. n \in 1..n
        BY <2>1
      <4>. HIDE DEF Part
      <4>. QED BY <4>1
    <3>2. Without \in SUBSET Nat
      BY <2>1
    <3>3. \A m \in Without : m \in 1..n /\ ~\E f : Part(m, f)
      OBVIOUS
    <3>4. \A m \in 1..n : m \notin Without => \E f : Part(m, f)
      OBVIOUS
    <3>. HIDE DEF Without
    <3>5. PICK m \in Without : \A k \in Without : m <= k
      BY <3>1, <3>2, LeastElement
    <3>6. m \in 1..n /\ m # 1
      BY <2>3, <3>3, <3>5
    <3>7. m - 1 \in 1..n /\ m - 1 \notin Without
      BY <2>1, <3>5, <3>6
    <3>8. PICK f : Part(m - 1, f)
      BY <3>4, <3>7
    <3>. QED BY <2>4, <3>3, <3>5, <3>6, <3>8
  <2>6. PICK f : f = CHOOSE h : Part(n, h)
    OBVIOUS
  <2>7. Part(n, f)
    BY <2>5, <2>6
  <2>8. \A i \in 1..n : f[i] \in Seq(S)
    <3>0. \A i \in 1..n : f[i] = Body(f, i)
      BY <2>7 DEF Part
    <3>. DEFINE Wrong == {i \in 1..n : f[i] \notin Seq(S)}
    <3>1. SUFFICES ASSUME Wrong # {} PROVE FALSE
      OBVIOUS
    <3>2. Wrong \in SUBSET Nat
      BY <2>1
    <3>3. \A i \in Wrong : i \in 1..n /\ f[i] \notin Seq(S)
      OBVIOUS
    <3>4. \A i \in 1..n : i \notin Wrong => f[i] \in Seq(S)
      OBVIOUS
    <3>. HIDE DEF Wrong, Body
    <3>5. PICK i \in Wrong : \A k \in Wrong : i <= k
      BY <3>1, <3>2, LeastElement
    <3>6. i \in 1..n /\ f[i] = Body(f, i) /\ s[i] \in Seq(S) /\ f[i] \notin Seq(S)
      BY <2>1, <3>0, <3>3, <3>5
    <3>7. i # 1
      BY <3>6 DEF Body
    <3>8. i - 1 \in 1..n /\ i - 1 \notin Wrong
      BY <2>1, <3>5, <3>6, <3>7
    <3>9. f[i - 1] \in Seq(S)
      BY <3>4, <3>8
    <3>10. f[i - 1] \o s[i] \in Seq(S)
      BY <3>6, <3>9, ConcatProperties
    <3>. QED BY <3>6, <3>7, <3>10 DEF Body
  <2>. QED BY <2>1, <2>2, <2>6, <2>8
<1>. QED BY <1>1, <1>2

\* The channels of one type are those of endpoints of that type.
LEMMA VirtualChannelsOfType ==
    ASSUME NEW endpoints \in Seq(EndpointRecords), NEW type,
           NEW k \in 1..Len(VirtualChannels(endpoints, type)), NEW e, NEW c,
           VirtualChannels(endpoints, type)[k] = <<e, c>>
    PROVE  endpoints[e].type = type
<1>. DEFINE S == {<<d, b>> : d \in {x \in DOMAIN endpoints : endpoints[x].type = type}, b \in Nat}
            s == [d \in DOMAIN endpoints |->
                     IF endpoints[d].type = type
                     THEN [b \in 1..endpoints[d].channelCount |-> <<d, b>>]
                     ELSE <<>>]
<1>1. s \in Seq(Seq(S))
  <2>1. ASSUME NEW d \in 1..Len(endpoints) PROVE s[d] \in Seq(S)
    <3>0. d \in DOMAIN endpoints /\ endpoints[d] \in EndpointRecords
      OBVIOUS
    <3>1. endpoints[d].channelCount \in Nat
      BY <3>0 DEF EndpointRecords
    <3>2. CASE endpoints[d].type = type
      <4>1. \A b \in 1..endpoints[d].channelCount : <<d, b>> \in S
        BY <3>1, <3>2
      <4>. HIDE DEF S
      <4>2. [b \in 1..endpoints[d].channelCount |-> <<d, b>>] \in Seq(S)
        BY <3>1, <4>1
      <4>. QED BY <3>0, <3>2, <4>2
    <3>3. CASE endpoints[d].type # type
      BY <3>0, <3>3
    <3>. QED BY <3>2, <3>3
  <2>2. Len(endpoints) \in Nat /\ s = [d \in 1..Len(endpoints) |-> s[d]]
    OBVIOUS
  <2>. HIDE DEF s, S
  <2>. QED BY <2>1, <2>2
<1>2. VirtualChannels(endpoints, type) = FlattenSeq(s)
  BY DEF VirtualChannels
<1>. HIDE DEF s, S
<1>3. VirtualChannels(endpoints, type) \in Seq(S)
  BY <1>1, <1>2, Flattened
<1>4. <<e, c>> \in S
  BY <1>3
<1>. QED BY <1>4 DEF S

LEMMA RowsFollowDirection ==
    ASSUME IInv, NEW infos \in Infos, \A i \in infos : IsPresent(i),
           NEW e \in DOMAIN Rows(infos), NEW c \in DOMAIN Rows(infos)[e],
           Rows(infos)[e][c] # NoSlot
    PROVE  /\ SlotOf(Rows(infos)[e][c]) = <<e, c>>
           /\ virtual = InitVirtualChannels(config) =>
                 (Rows(infos)[e][c].isInput <=> config[e].type = "Playback")
<1>. DEFINE here == {i \in infos : IsVirtual(i) /\ SlotOf(i) = <<e, c>>}
<1>1. Rows(infos)[e][c] = IF here = {} THEN NoSlot ELSE CHOOSE i \in here : TRUE
  BY DEF Rows
<1>2. PICK i \in here : i = Rows(infos)[e][c]
  BY <1>1
<1>3. /\ i \in infos /\ IsVirtual(i) /\ IsPresent(i) /\ SlotOf(i) = <<e, c>>
      /\ i.isInput \in BOOLEAN /\ i.index \in Nat
  <2>1. i \in [isInput : BOOLEAN, index : Nat]
    BY <1>2, AsioWrapperAssumption
  <2>. QED BY <1>2, <2>1
<1>4. PICK endpoints \in Seq(EndpointRecords) : endpoints = config
  BY AsioWrapperAssumption DEF IInv, TypeOK, EndpointRecords
<1>5. ASSUME virtual = InitVirtualChannels(config)
      PROVE  i.isInput <=> config[e].type = "Playback"
  <2>1. PICK type : /\ type = IF i.isInput THEN "Playback" ELSE "Recording"
                    /\ ChannelsFor(i.isInput) = VirtualChannels(endpoints, type)
    BY <1>4, <1>5 DEF ChannelsFor, InitVirtualChannels
  <2>2. PICK k : k = i.index - Physical + 1 /\ k \in Int /\ k >= 1
                 /\ k <= Len(VirtualChannels(endpoints, type))
                 /\ VirtualChannels(endpoints, type)[k] = <<e, c>>
    BY <1>3, <2>1, AsioWrapperAssumption DEF IsVirtual, IsPresent, ChannelCount, SlotOf
  <2>3. endpoints[e].type = type
    <3>1. Len(VirtualChannels(endpoints, type)) \in Nat
             => k \in 1..Len(VirtualChannels(endpoints, type))
      BY <2>2
    <3>. QED BY <2>2, <3>1, VirtualChannelsOfType
  <2>. QED BY <1>3, <1>4, <2>1, <2>3
<1>. QED BY <1>2, <1>3, <1>5

LEMMA SlotsStep ==
    ASSUME IInv, SlotsFollowDirection, [Next]_vars
    PROVE  SlotsFollowDirection'
<1>1. CASE UNCHANGED buffers
  BY <1>1 DEF SlotsFollowDirection
<1>2. CASE buffers'.rows = <<>>
  <2>1. DOMAIN buffers'.rows = {}
    BY <1>2
  <2>. QED BY <2>1 DEF SlotsFollowDirection
<1>3. ASSUME NEW infos \in Infos, NEW size, CreateBuffers(infos, size)
      PROVE  SlotsFollowDirection'
  <2>1. /\ \A i \in infos : IsPresent(i)
        /\ buffers'.rows = Rows(infos) /\ buffers'.endpoints = config
        /\ buffers'.fresh = (virtual = InitVirtualChannels(config))
    BY <1>3 DEF CreateBuffers
  <2>2. \A e \in DOMAIN Rows(infos) : \A c \in DOMAIN Rows(infos)[e] :
           Rows(infos)[e][c] # NoSlot =>
              /\ SlotOf(Rows(infos)[e][c]) = <<e, c>>
              /\ buffers'.fresh => (Rows(infos)[e][c].isInput <=> config[e].type = "Playback")
    BY <2>1, RowsFollowDirection
  <2>3. PICK rows : rows = Rows(infos)
    OBVIOUS
  <2>4. \A e \in DOMAIN rows : \A c \in DOMAIN rows[e] :
           rows[e][c] # NoSlot =>
              /\ buffers'.fresh => (rows[e][c].isInput <=> config[e].type = "Playback")
              /\ \A f \in DOMAIN rows : \A d \in DOMAIN rows[f] :
                    rows[f][d] = rows[e][c] => <<e, c>> = <<f, d>>
    BY <2>2, <2>3
  <2>. QED BY <2>1, <2>3, <2>4 DEF SlotsFollowDirection
<1>4. UNCHANGED buffers \/ buffers'.rows = <<>>
      \/ \E infos \in Infos, size \in HostSizes(offered) : CreateBuffers(infos, size)
  <2>1. CASE FreeBuffers
    <3>1. buffers' = [buffers EXCEPT !.rows = <<>>, !.endpoints = <<>>]
      BY <2>1 DEF FreeBuffers
    <3>2. "rows" \in DOMAIN buffers
      BY DEF IInv, TypeOK, NoBuffers
    <3>. QED BY <3>1, <3>2
  <2>2. CASE Reload
    BY <2>2 DEF Reload, LoadedAnew, NoBuffers
  <2>3. CASE HostStep /\ ~FreeBuffers
    BY <2>3 DEF HostStep, wrapperVars, OpenControlDevice, OpenMmNotificationClient,
                SetBufferLayout, CreateEndpoints, StartInner, Unregister, LockForStop,
                CloseDevice, StopInner
  <2>4. CASE HostCall /\ ~Reload
    BY <2>4 DEF HostCall, wrapperVars, GetBufferSize, SetSampleRate,
                OnConfigureHardwareInterface, CreateBuffersDies, LoadedAnew, NoBuffers,
                CreateBuffersRefused, CreateBuffersFails, CreateFakeBuffers,
                DisposeFakeBuffers, DisposeBuffers, Start, Stop, ControlPanel
  <2>5. CASE TickStep \/ OnDeviceStateChanged
    BY <2>5 DEF TickStep, wrapperVars, OnTickStub, LockForTick, TakeFlag,
                SendFormatChangeEvent, CopyEndpoints, UserTick, OnDeviceStateChanged
  <2>6. CASE UNCHANGED vars
    BY <2>6 DEF vars
  <2>. QED BY <2>1, <2>2, <2>3, <2>4, <2>5, <2>6 DEF Next
<1>. QED BY <1>1, <1>2, <1>3, <1>4

\* A buffer of the host is for one channel of one endpoint only, whatever the
\* dialog did since the channels were listed; and it has the README's direction
\* when they are the endpoints' that the buffers are made for.
THEOREM SlotsKeepDirection == Spec => []SlotsFollowDirection
<1>1. Init => SlotsFollowDirection
  <2>. SUFFICES ASSUME Init PROVE SlotsFollowDirection
    OBVIOUS
  <2>1. DOMAIN buffers.rows = {}
    BY DEF Init, NoBuffers
  <2>. QED BY <2>1 DEF SlotsFollowDirection
<1>2. IInv /\ SlotsFollowDirection /\ [Next]_vars => SlotsFollowDirection'
  BY SlotsStep
<1>. QED BY <1>1, <1>2, ThreadsInvariant, PTL DEF Spec

-----------------------------------------------------------------------------
(* The sizes a host is offered                                             *)

\* What the two loops of getBufferSize do with a size: it is final, or a
\* smaller one is looked at next.
Final(sizes, limit, size) ==
    \/ size <= limit
    \/ IF sizes.granularity = -1 THEN size <= sizes.min ELSE size - sizes.min < sizes.granularity
Lowered(sizes, size) ==
    IF sizes.granularity = -1 THEN size \div 2 ELSE size - sizes.granularity

\* The inner driver's sizes are its smallest one and steps of its granularity
\* up to the largest.
SizesInSteps ==
    \A s \in InnerSizes : s.granularity > 0 => \E k \in Nat : s.max = s.min + k * s.granularity

LEMMA Halved ==
    ASSUME NEW n \in Nat, n > 0
    PROVE  n \div 2 \in Nat /\ n \div 2 < n
OBVIOUS

LEMMA LoweredIsLower ==
    ASSUME NEW s \in InnerSizes, s.granularity # 0, NEW limit \in Nat,
           NEW n \in Nat, ~Final(s, limit, n)
    PROVE  Lowered(s, n) \in Nat /\ Lowered(s, n) < n
<1>1. /\ s.min \in Nat /\ s.granularity \in Int
      /\ s.granularity # -1 => s.granularity \in Nat \ {0}
  BY AsioWrapperAssumption
<1>2. n > 0
  BY <1>1 DEF Final
<1>. QED BY <1>1, <1>2, Halved DEF Final, Lowered

\* The sizes that lower to one within the limit: each of them is.
InSteps(s, n) == s.granularity = -1 \/ \E k \in Nat : n = s.min + k * s.granularity

LEMMA InStepsLowered ==
    ASSUME NEW s \in InnerSizes, s.granularity # 0, NEW limit \in Nat, s.min <= limit,
           NEW n \in Nat, InSteps(s, n)
    PROVE  IF Final(s, limit, n) THEN n <= limit ELSE InSteps(s, Lowered(s, n))
<1>1. /\ s.min \in Nat /\ s.granularity \in Int
      /\ s.granularity # -1 => s.granularity \in Nat \ {0}
  BY AsioWrapperAssumption
<1>2. CASE s.granularity = -1
  BY <1>1, <1>2 DEF Final, InSteps
<1>3. CASE s.granularity # -1
  <2>1. PICK g \in Nat \ {0}, min \in Nat : g = s.granularity /\ min = s.min
    BY <1>1, <1>3
  <2>2. PICK k \in Nat : n = min + k * g
    BY <1>3, <2>1 DEF InSteps
  <2>3. CASE k = 0
    BY <1>3, <2>1, <2>2, <2>3 DEF Final
  <2>4. CASE k # 0
    <3>1. k - 1 \in Nat /\ k * g = (k - 1) * g + g /\ (k - 1) * g \in Nat
      BY <2>4
    <3>2. n - g = min + (k - 1) * g /\ n - min >= g
      BY <2>2, <3>1
    <3>3. Lowered(s, n) = n - g /\ (Final(s, limit, n) => n <= limit)
      BY <1>3, <2>1, <3>2 DEF Lowered, Final
    <3>. QED BY <2>1, <3>1, <3>2, <3>3 DEF InSteps
  <2>. QED BY <2>3, <2>4
<1>. QED BY <1>2, <1>3

LEMMA LimitedFits ==
    ASSUME NEW s \in InnerSizes, s.granularity # 0, NEW limit \in Nat, s.min <= limit,
           InSteps(s, s.max)
    PROVE  Limited(s, limit) \in Nat /\ Limited(s, limit) <= limit
<1>. DEFINE Body(f, n) == IF n > limit
                          THEN IF s.granularity = -1
                               THEN IF n > s.min THEN f[n \div 2] ELSE n
                               ELSE IF n - s.min >= s.granularity
                                    THEN f[n - s.granularity] ELSE n
                          ELSE n
            Part(m, f) == f = [n \in 0..m |-> Body(f, n)]
<1>1. s.max \in Nat /\ s.min \in Nat /\ s.granularity \in Int
  BY AsioWrapperAssumption
<1>2. Limited(s, limit) = (CHOOSE f : Part(s.max, f))[s.max]
  BY DEF Limited
<1>3. ASSUME NEW f, NEW n \in Nat
      PROVE  Body(f, n) = IF Final(s, limit, n) THEN n ELSE f[Lowered(s, n)]
  BY <1>1 DEF Final, Lowered
<1>. HIDE DEF Body
<1>4. ASSUME NEW m \in Nat, NEW f, m # 0 => Part(m - 1, f)
      PROVE  \E g : Part(m, g)
  <2>. DEFINE last == IF Final(s, limit, m) THEN m ELSE f[Lowered(s, m)]
              g == [n \in 0..m |-> IF n < m THEN f[n] ELSE last]
  <2>1. ASSUME NEW n \in 0..m PROVE g[n] = Body(g, n)
    <3>1. CASE n = m
      <4>1. ~Final(s, limit, m) => Lowered(s, m) \in 0..m /\ Lowered(s, m) < m
        BY LoweredIsLower
      <4>2. ~Final(s, limit, m) => g[Lowered(s, m)] = f[Lowered(s, m)]
        BY <4>1
      <4>3. g[m] = last
        OBVIOUS
      <4>. HIDE DEF g
      <4>. QED BY <1>3, <3>1, <4>2, <4>3
    <3>2. CASE n # m
      <4>1. n \in 0..(m - 1) /\ n < m /\ m # 0 /\ n \in Nat
        BY <3>2
      <4>2. f[n] = Body(f, n)
        BY <1>4, <4>1
      <4>3. ~Final(s, limit, n) => Lowered(s, n) \in 0..m /\ Lowered(s, n) < m
        BY <4>1, LoweredIsLower
      <4>4. ~Final(s, limit, n) => g[Lowered(s, n)] = f[Lowered(s, n)]
        BY <4>3
      <4>5. g[n] = f[n]
        BY <4>1
      <4>. HIDE DEF g
      <4>. QED BY <1>3, <4>1, <4>2, <4>4, <4>5
    <3>. QED BY <3>1, <3>2
  <2>2. g = [n \in 0..m |-> g[n]]
    OBVIOUS
  <2>. HIDE DEF g
  <2>3. Part(m, g)
    BY <2>1, <2>2
  <2>. HIDE DEF Part
  <2>. QED BY <2>3
<1>5. \E f : Part(s.max, f)
  <2>. DEFINE Without == {m \in Nat : ~\E f : Part(m, f)}
  <2>. HIDE DEF Part
  <2>1. SUFFICES ASSUME Without # {} PROVE FALSE
    BY <1>1
  <2>2. /\ \A m \in Without : m \in Nat /\ ~\E f : Part(m, f)
        /\ \A m \in Nat : m \notin Without => \E f : Part(m, f)
        /\ Without \in SUBSET Nat
    OBVIOUS
  <2>. HIDE DEF Without
  <2>3. PICK m \in Without : \A k \in Without : m <= k
    BY <2>1, <2>2, LeastElement
  <2>4. m \in Nat /\ ~\E f : Part(m, f)
    BY <2>2, <2>3
  <2>5. CASE m = 0
    <3>1. PICK f : f = m
      OBVIOUS
    <3>. QED BY <1>4, <2>4, <2>5
  <2>6. CASE m # 0
    <3>1. m - 1 \in Nat /\ m - 1 \notin Without
      BY <2>3, <2>4, <2>6
    <3>2. PICK f : Part(m - 1, f)
      BY <2>2, <3>1
    <3>. QED BY <1>4, <2>4, <3>2
  <2>. QED BY <2>5, <2>6
<1>6. PICK f : f = CHOOSE h : Part(s.max, h)
  OBVIOUS
<1>7. Part(s.max, f)
  <2>. HIDE DEF Part
  <2>. QED BY <1>5, <1>6
<1>8. \A n \in 0..s.max : InSteps(s, n) => f[n] \in Nat /\ f[n] <= limit
  <2>0. ASSUME NEW n \in 0..s.max
        PROVE  f[n] = IF Final(s, limit, n) THEN n ELSE f[Lowered(s, n)]
    <3>1. f[n] = Body(f, n)
      BY <1>7
    <3>2. n \in Nat
      BY <1>1
    <3>. QED BY <1>3, <3>1, <3>2
  <2>. DEFINE Good(n) == InSteps(s, n) => f[n] \in Nat /\ f[n] <= limit
              Wrong == {n \in 0..s.max : ~Good(n)}
  <2>1. SUFFICES ASSUME Wrong # {} PROVE FALSE
    OBVIOUS
  <2>2. /\ \A n \in Wrong : n \in 0..s.max /\ ~Good(n)
        /\ \A n \in 0..s.max : n \notin Wrong => Good(n)
    OBVIOUS
  <2>3. Wrong \in SUBSET Nat
    BY <1>1
  <2>. HIDE DEF Wrong
  <2>4. PICK n \in Wrong : \A k \in Wrong : n <= k
    BY <2>1, <2>3, LeastElement
  <2>5. n \in 0..s.max /\ n \in Nat /\ ~Good(n)
    BY <1>1, <2>2, <2>4
  <2>6. InSteps(s, n)
    BY <2>5
  <2>7. IF Final(s, limit, n) THEN n <= limit ELSE InSteps(s, Lowered(s, n))
    BY <2>5, <2>6, InStepsLowered
  <2>8. CASE Final(s, limit, n)
    BY <2>0, <2>5, <2>7, <2>8
  <2>9. CASE ~Final(s, limit, n)
    <3>1. Lowered(s, n) \in Nat /\ Lowered(s, n) < n
      BY <2>5, <2>9, LoweredIsLower
    <3>2. Lowered(s, n) \in 0..s.max /\ Lowered(s, n) \notin Wrong
      BY <1>1, <2>4, <2>5, <3>1
    <3>3. Good(Lowered(s, n))
      BY <2>2, <3>2
    <3>. QED BY <2>0, <2>5, <2>7, <2>9, <3>3
  <2>. QED BY <2>8, <2>9
<1>9. s.max \in 0..s.max
  BY <1>1
<1>. QED BY <1>2, <1>6, <1>8, <1>9

\* Whatever size a host chooses of those it is offered is accepted, for every
\* inner driver whose sizes are in the steps it names.
THEOREM OfferIsAccepted == ASSUME SizesInSteps PROVE Spec => []OfferedSizesAccepted
<1>1. ASSUME IInv, offered # NoSizes, inner.present, ~CannotLimit(inner.sizes, inner.rate),
             NEW size \in HostSizes(offered)
      PROVE  SizeFits(size)
  <2>1. PICK s \in InnerSizes, limit \in Nat : s = inner.sizes /\ limit = inner.rate
    BY <1>1, AsioWrapperAssumption DEF IInv, TypeOK
  <2>2. s.min <= limit /\ s.granularity # 0
    <3>1. s.min \in Nat
      BY <2>1, AsioWrapperAssumption
    <3>. QED BY <1>1, <2>1, <3>1 DEF CannotLimit
  <2>3. InSteps(s, s.max)
    <3>1. s.granularity = -1 \/ s.granularity > 0
      BY <2>2, AsioWrapperAssumption
    <3>. QED BY <3>1 DEF InSteps, SizesInSteps
  <2>4. PICK max \in Nat : max = Limited(s, limit) /\ max <= limit
    BY <2>2, <2>3, LimitedFits
  <2>5. offered = [s EXCEPT !.max = max, !.preferred = Clamp(s.preferred, max)]
    BY <1>1, <2>1, <2>4 DEF IInv, OfferInv, OfferedSizes
  <2>6. s \in [min : Nat \ {0}, max : Nat, preferred : Nat, granularity : Nat \cup {-1}]
    BY AsioWrapperAssumption
  <2>7. PICK preferred \in Nat : preferred = Clamp(s.preferred, max) /\ preferred <= max
    BY <2>6 DEF Clamp
  <2>8. offered.max = max /\ offered.preferred = preferred /\ offered.min = s.min
    BY <2>5, <2>6, <2>7
  <2>9. size = preferred \/ size \in s.min..max
    BY <1>1, <2>8 DEF HostSizes
  <2>10. size \in Int /\ size <= max
    BY <2>6, <2>7, <2>9
  <2>. QED BY <2>1, <2>4, <2>10 DEF SizeFits
<1>2. IInv => OfferedSizesAccepted
  BY <1>1 DEF OfferedSizesAccepted
<1>. QED BY <1>2, ThreadsInvariant, PTL
=============================================================================
